---- MODULE Spec2Model ----
(***************************************************************************)
(* Verification model of the real-time voice-scheduling and envelope       *)
(* engine of maestro_core: the ADSR envelope (dsp/dynamics/adsr.rs) on top *)
(* of the Smoother/Ramp (util/smoothing), the VoiceHandler                  *)
(* (app/audio/voice/voice.rs) and the audio callback (app/audio/process.rs)*)
(*                                                                         *)
(* Levels (attack level, sustain level, smoother targets) are fixed-point  *)
(* per-mille integers: 1000 stands for 1.0, 500 for 0.5.                    *)
(* Durations are whole milliseconds.                                        *)
(***************************************************************************)
EXTENDS Integers, Sequences, FiniteSets, TLC

(***************************************************************************)
(* Bounds of the model.                                                    *)
(***************************************************************************)
\* settings.rs:10 has 44100.0; the model runs the engine at 1 kHz so that one
\* millisecond is one sample and a release fits into a few callbacks.
SAMPLE_RATE == 1000
\* settings.rs:64 has 16; the pool is scaled down so that it fills up.
NUM_VOICES == 2
\* Longest recorded stage history of the stand-alone envelope.
MaxTrace == 7
\* Operations applied to the stand-alone Ramp in one run.
MaxRampOps == 5
\* Operations applied to the stand-alone Smoother in one run.
MaxSmootherOps == 5
\* Frames of the buffer the mixing loop is tried on.
MixFrames == 3
\* process_block calls made on that buffer in one run.
MaxMixCalls == 2

(***************************************************************************)
(* Program constants.                                                      *)
(***************************************************************************)
MAX_BLOCK_SIZE == 64
DEFAULT_ATTACK_TIME_MS == 10
DEFAULT_DECAY_TIME_MS == 100
DEFAULT_SUSTAIN_LEVEL == 500
DEFAULT_RELEASE_TIME_MS == 50
DEFAULT_CURVE_AMOUNT == 700

VARIABLES
    \* ---- the stand-alone envelope
    env,        \* a stand-alone AdsrEnvelope
    envTrace,   \* the stages the stand-alone envelope has been in, in order
    envTrigLog, \* <<stage, value>> of every set_trigger call that changed the trigger
    envOut,     \* the last next() call of the stand-alone envelope
    \* ---- VoiceHandler
    voices,     \* VoiceHandler::voices, the array of Option<Voice>
    id_counter, \* VoiceHandler::id_counter
    generator,  \* VoiceHandler::generator is Some
    voiceQ,     \* the mpsc channel of VoiceEvents
    \* ---- AudioModel
    noteQ,      \* the bounded channel of NoteEvents
    voice_gain, \* AudioData::voice_gain
    is_processing,      \* AudioData::is_processing
    idle_timer_samples, \* AudioData::idle_timer_samples
    \* ---- the audio thread
    started,    \* the output stream is playing
    pc,         \* "out": between callbacks, "run": inside process(), "panicked"
    buffer_len, \* frames per buffer of the stream
    block_start,
    block_end,
    next_event,
    \* ---- observers
    cbCount,    \* callbacks begun
    sent,       \* note events sent by the control threads
    issued,     \* voice commands issued by the control threads
    lastStep,   \* the last step of the audio thread
    lastPath,   \* "fast" or "full": the path the last callback took
    segs,       \* the segments processed in the current callback
    applied,    \* the events applied in the current callback
    snap,       \* the pool before the last event, or before the last sweep
    quietFrames, \* frames rendered since the pool was last occupied
    bufferWrites, \* samples of the output buffer written in the current callback
    entry,      \* what the current callback found when it was invoked
    noteLog,    \* the events received in the current callback, and for every
                \* voice id the place of its NoteOn among the events sent
    relLog,     \* for every slot the frames processed since its voice was
                \* marked releasing, and those of the voices the last sweep cleared
    \* ---- a direct call of start_release_for_voice
    relPool,    \* the pool the call is made on
    relCall,    \* <<voice_id, note>> of the call, <<>> before it
    relOut,     \* the pool after the call
    \* ---- a Ramp on its own
    ramp,       \* the Ramp
    rampObs,    \* the last operation on it
    \* ---- a Smoother on its own
    sm,         \* the Smoother
    smObs,      \* the last operations on it
    \* ---- process_block's mixing on its own
    mixBuffer,  \* the interleaved output buffer
    mixCall,    \* the process_block calls made on it
    \* ---- a VoiceHandler that only allocates
    idsHandler, \* its voices and its id_counter
    idsIssued,  \* the ids start_voice has handed out, in order
    \* ---- an envelope that is being configured
    cfgEnv,     \* the AdsrEnvelope
    cfgBuild,   \* cfg!(debug_assertions) of the build that runs it
    cfgCall,    \* the last call made on it and how it ended
    \* ---- a Smoother advanced in blocks
    blkSm,      \* the Smoother
    blkObs,     \* its last call, and what next() calls would have done instead
    \* ---- an AudioModelBuilder
    builder,    \* its prepared_state and what became of build()
    builderCalls, \* the preparation methods called on it, in order
    \* ---- a TimerThread and the thread that owns it
    thread,            \* TimerThread::thread is Some
    continue_sentinel, \* TimerThread::continue_sentinel
    timeout_counter,   \* TimerThread::timeout_counter
    counter_secs,      \* TimerThread::counter_secs, in ticks of dt()
    interval_secs,     \* TimerThread::interval_secs, in ticks of dt()
    timerPc,    \* where the spawned thread is, "none" when there is none
    ownerPc,    \* where the owner is within start/stop/stop_after_num_callbacks
    timerObs    \* the owner's last call and the callbacks invoked since

envVars == <<env, envTrace, envTrigLog, envOut>>
engineVars == <<voices, id_counter, generator, voiceQ, noteQ, voice_gain,
                is_processing, idle_timer_samples, started, pc, buffer_len,
                block_start, block_end, next_event, cbCount, sent, issued, lastStep,
                lastPath, segs, applied, snap, quietFrames, bufferWrites,
                entry, noteLog, relLog>>
relVars == <<relPool, relCall, relOut>>
rampVars == <<ramp, rampObs>>
\* the parts tried on their own besides the envelope and the release call
smVars == <<sm, smObs>>
mixVars == <<mixBuffer, mixCall>>
idVars == <<idsHandler, idsIssued>>
\* the parts tried on their own after the mixing
cfgVars == <<cfgEnv, cfgBuild, cfgCall>>
blkVars == <<blkSm, blkObs>>
builderVars == <<builder, builderCalls>>
timerVars == <<thread, continue_sentinel, timeout_counter, counter_secs,
               interval_secs, timerPc, ownerPc, timerObs>>
lateVars == <<idVars, cfgVars, blkVars, builderVars, timerVars>>
unitVars == <<rampVars, smVars, mixVars, lateVars>>
\* what the engine leaves alone
restVars == <<envVars, relVars, unitVars>>
vars == <<envVars, engineVars, relVars, unitVars>>
exceptRamp == <<engineVars, envVars, relVars, smVars, mixVars, lateVars>>
exceptSmoother == <<engineVars, envVars, relVars, rampVars, mixVars,
                   lateVars>>
exceptMix == <<engineVars, envVars, relVars, rampVars, smVars, lateVars>>
earlyVars == <<engineVars, envVars, relVars, rampVars, smVars, mixVars>>

(***************************************************************************)
(* Fixed-point arithmetic: progress and levels are per-mille integers.     *)
(***************************************************************************)
\* n / d rounded to the nearest integer, d > 0
FixDiv(n, d) == (2 * n + d) \div (2 * d)

\* f64::clamp
clamp(x, lo, hi) == IF x < lo THEN lo ELSE IF x > hi THEN hi ELSE x

\* const RAMP_TARGET: f64 = 1.0
RAMP_TARGET == 1000

(***************************************************************************)
(* Ramp (util/smoothing/ramp_atomic.rs): steps_remaining, step_size,       *)
(* current_value and duration_ms.                                          *)
(***************************************************************************)
\* (sample_rate * duration_ms / 1000.0).round() as u32
\* (the cast saturates: a negative duration gives no steps)
Ramp_duration_samples(r) ==
    IF r.duration_ms < 0 THEN 0
    ELSE (SAMPLE_RATE * r.duration_ms + 500) \div 1000

\* setup() sets the step count and leaves step_size alone
Ramp_setup(r) == [r EXCEPT !.steps_remaining = Ramp_duration_samples(r)]

Ramp_compute_step_size(r) ==
    [r EXCEPT !.step_size = IF r.steps_remaining > 0
                            THEN FixDiv(RAMP_TARGET - r.current_value,
                                        r.steps_remaining)
                            ELSE 0]

Ramp_new(duration_ms) ==
    Ramp_setup([steps_remaining |-> 0, step_size |-> 0, current_value |-> 0,
                duration_ms |-> duration_ms])

Ramp_is_active(r) == r.steps_remaining > 0

\* A ramp that adds its last step instead of storing the target.
Ramp_skip_accumulating(r, num_steps) ==
    IF num_steps = 0 THEN r
    ELSE IF r.steps_remaining = 0 THEN r
    ELSE IF r.steps_remaining < num_steps
         THEN [r EXCEPT !.steps_remaining = 0, !.current_value = RAMP_TARGET]
         ELSE [r EXCEPT !.current_value = @ + r.step_size * num_steps,
                        !.steps_remaining = @ - num_steps]

Ramp_skip(r, num_steps) ==
    IF num_steps = 0 THEN r
    ELSE IF r.steps_remaining = 0 THEN r
    ELSE IF r.steps_remaining <= num_steps
         THEN [r EXCEPT !.steps_remaining = 0, !.current_value = RAMP_TARGET]
         ELSE [r EXCEPT !.current_value = @ + r.step_size * num_steps,
                        !.steps_remaining = @ - num_steps]

\* the value skip() returns
Ramp_skip_value(r, num_steps) ==
    IF num_steps = 0 THEN r.current_value
    ELSE IF r.steps_remaining = 0 THEN RAMP_TARGET
    ELSE Ramp_skip(r, num_steps).current_value

Ramp_next(r) == Ramp_skip(r, 1)

\* next_block_exact: the progress and step count it leaves behind; line 117
\* stores RAMP_TARGET whatever the block covered
Ramp_next_block_exact(r, block_len) ==
    LET num_smoothed_values == IF block_len <= r.steps_remaining
                               THEN block_len ELSE r.steps_remaining
    IN  IF num_smoothed_values = 0 THEN r
        ELSE [r EXCEPT !.current_value = RAMP_TARGET,
                       !.steps_remaining = @ - num_smoothed_values]

Ramp_reset(r) ==
    Ramp_compute_step_size(Ramp_setup([r EXCEPT !.current_value = 0]))

Ramp_reset_to(r, value) ==
    Ramp_setup([r EXCEPT !.current_value = clamp(value, 0, RAMP_TARGET)])

Ramp_set_duration(r, duration_ms) ==
    Ramp_setup([r EXCEPT !.duration_ms = duration_ms])

(***************************************************************************)
(* Interpolation (util/interp.rs, util/xfer.rs).                           *)
(***************************************************************************)
SmoothingType == {"Linear", "CurveNormal"}

\* linear(a, b, t): t clamped to [0, 1], a at 0, b at 1, t * (b - a) + a between
lerp(a, b, t) ==
    LET c == clamp(t, 0, RAMP_TARGET)
    IN  IF c = 0 THEN a
        ELSE IF c = RAMP_TARGET THEN b
        ELSE a + FixDiv(c * (b - a), RAMP_TARGET)

\* ilerp(a, b, val) = (val - a) / (b - a), 0 when b == a
ilerp(a, b, val) ==
    IF b = a THEN 0
    ELSE IF b > a THEN FixDiv((val - a) * RAMP_TARGET, b - a)
    ELSE FixDiv((a - val) * RAMP_TARGET, a - b)

\* s_curve(input, tension) for the envelope's tension (0.7) and an input in
\* [0, 1]: 1 - (1 - input)^c with c = 1 / 0.335, taken as 3
s_curve(input) ==
    LET c == clamp(input, 0, RAMP_TARGET)
        d == RAMP_TARGET - c
    IN  RAMP_TARGET - FixDiv(d * d * d, RAMP_TARGET * RAMP_TARGET)

\* the match on smoothing_type in interpolated_value and next_block_exact
shaped(smoothing_type, a, b, t) ==
    IF smoothing_type = "Linear" THEN lerp(a, b, t) ELSE lerp(a, b, s_curve(t))

(***************************************************************************)
(* Smoother<f64> (util/smoothing/smoother.rs).                             *)
(***************************************************************************)
Smoother_new(duration_ms, target_value) ==
    [ramp           |-> Ramp_new(duration_ms),
     start_value    |-> 0,
     current_value  |-> target_value,
     target_value   |-> target_value,
     smoothing_type |-> "Linear"]

Smoother_is_active(s) == Ramp_is_active(s.ramp)

Smoother_interpolated_value(s) ==
    [s EXCEPT !.current_value =
        shaped(s.smoothing_type, s.start_value, s.target_value,
               s.ramp.current_value)]

Smoother_skip(s, num_steps) ==
    IF ~Smoother_is_active(s) THEN s
    ELSE Smoother_interpolated_value([s EXCEPT !.ramp = Ramp_skip(@, num_steps)])

Smoother_next(s) == Smoother_skip(s, 1)

Smoother_finish(s) == [s EXCEPT !.ramp = Ramp_reset(@)]

Smoother_set_smoothing_type(s, smoothing_type) ==
    [s EXCEPT !.smoothing_type = smoothing_type]

Smoother_set_target_value(s, target_value) ==
    LET t == [s EXCEPT !.target_value = target_value]
        interp == ilerp(s.start_value, target_value, s.current_value)
        u == IF Smoother_is_active(t)
             THEN [t EXCEPT !.ramp = Ramp_reset_to(@, interp)]
             ELSE [t EXCEPT !.ramp = Ramp_reset(@)]
    IN  [u EXCEPT !.start_value = s.current_value]

Smoother_set_start_value(s, start_value) ==
    [s EXCEPT !.start_value = start_value]

Smoother_set_smoothing_period(s, duration_ms) ==
    [s EXCEPT !.ramp = Ramp_set_duration(@, duration_ms)]

(***************************************************************************)
(* AdsrEnvelope (dsp/dynamics/adsr.rs).                                    *)
(***************************************************************************)
AdsrStage == {"Idle", "Attack", "Decay", "Sustain", "Release"}

AdsrParameters_default ==
    [attack_time_ms  |-> DEFAULT_ATTACK_TIME_MS,
     attack_level    |-> 1000,
     attack_curve    |-> DEFAULT_CURVE_AMOUNT,
     decay_time_ms   |-> DEFAULT_DECAY_TIME_MS,
     decay_curve     |-> DEFAULT_CURVE_AMOUNT,
     sustain_level   |-> DEFAULT_SUSTAIN_LEVEL,
     release_time_ms |-> DEFAULT_RELEASE_TIME_MS,
     release_curve   |-> DEFAULT_CURVE_AMOUNT]

AdsrEnvelope_new ==
    [parameters |-> AdsrParameters_default,
     ramp       |-> Smoother_new(0, 1000),
     stage      |-> "Idle",
     trigger    |-> FALSE]

set_trigger(e, trigger) == [e EXCEPT !.trigger = trigger]

set_parameters(e, attack_time_ms, decay_time_ms, sustain_level, release_time_ms) ==
    [e EXCEPT !.parameters.attack_time_ms  = attack_time_ms,
              !.parameters.decay_time_ms   = decay_time_ms,
              !.parameters.sustain_level   = sustain_level,
              !.parameters.release_time_ms = release_time_ms]

\* the condition of the debug_assert! in debug_parameter_assertions
debug_parameter_assertions(parameters) ==
    /\ parameters.attack_time_ms >= 0
    /\ parameters.decay_time_ms >= 0
    /\ parameters.release_time_ms >= 0
    /\ parameters.sustain_level \in 0..1000
    /\ parameters.attack_level \in 0..1000
    /\ parameters.attack_curve \in (0 - 1000)..1000
    /\ parameters.decay_curve \in (0 - 1000)..1000
    /\ parameters.release_curve \in (0 - 1000)..1000

\* the single-parameter setters: the value is stored, then asserted on
set_attack_time_ms(e, attack_time_ms) ==
    [e EXCEPT !.parameters.attack_time_ms = attack_time_ms]

set_attack_level(e, attack_level) ==
    [e EXCEPT !.parameters.attack_level = attack_level]

set_attack_curve(e, curve_amount) ==
    [e EXCEPT !.parameters.attack_curve = curve_amount]

set_decay_time_ms(e, decay_time_ms) ==
    [e EXCEPT !.parameters.decay_time_ms = decay_time_ms]

set_decay_curve(e, curve_amount) ==
    [e EXCEPT !.parameters.decay_curve = curve_amount]

set_sustain_level(e, sustain_level) ==
    [e EXCEPT !.parameters.sustain_level = sustain_level]

set_release_time_ms(e, release_time_ms) ==
    [e EXCEPT !.parameters.release_time_ms = release_time_ms]

set_release_curve(e, curve_amount) ==
    [e EXCEPT !.parameters.release_curve = curve_amount]

is_idle(e) == e.stage = "Idle"

set_idle_stage(e) ==
    [e EXCEPT !.ramp  = Smoother_set_smoothing_period(
                            Smoother_set_target_value(@, 0), 0),
              !.stage = "Idle"]

set_attack_stage(e) ==
    LET start == IF e.parameters.attack_time_ms <= 0
                 THEN e.parameters.attack_level ELSE 0
    IN  [e EXCEPT !.ramp  = Smoother_set_smoothing_period(
                                Smoother_set_target_value(
                                    Smoother_set_start_value(
                                        Smoother_set_smoothing_type(@, "CurveNormal"),
                                        start),
                                    e.parameters.attack_level),
                                e.parameters.attack_time_ms),
                  !.stage = "Attack"]

set_decay_stage(e) ==
    [e EXCEPT !.ramp  = Smoother_set_smoothing_period(
                            Smoother_set_start_value(
                                Smoother_set_target_value(
                                    Smoother_set_smoothing_type(@, "CurveNormal"),
                                    e.parameters.sustain_level),
                                e.parameters.attack_level),
                            e.parameters.decay_time_ms),
              !.stage = "Decay"]

set_sustain_stage(e) ==
    [e EXCEPT !.ramp  = Smoother_finish(
                            Smoother_set_target_value(@, e.parameters.sustain_level)),
              !.stage = "Sustain"]

\* A release that keeps the period of the stage it interrupts.
set_release_stage_keeping_period(e) ==
    [e EXCEPT !.ramp  = Smoother_set_target_value(
                            Smoother_set_smoothing_type(@, "CurveNormal"), 0),
              !.stage = "Release"]

set_release_stage(e) ==
    [e EXCEPT !.ramp  = Smoother_set_smoothing_period(
                            Smoother_set_target_value(
                                Smoother_set_smoothing_type(@, "CurveNormal"), 0),
                            e.parameters.release_time_ms),
              !.stage = "Release"]

\* A trigger that is only looked at in Idle: a release runs out before the
\* envelope attacks again.
update_stage_idle_only(e, trigger) ==
    IF e.stage = "Idle"
    THEN IF trigger THEN set_attack_stage(e) ELSE e
    ELSE IF e.stage = "Release" THEN e
    ELSE IF ~trigger THEN set_release_stage(e) ELSE e

update_stage(e, trigger) ==
    IF e.stage \in {"Idle", "Release"}
    THEN IF trigger THEN set_attack_stage(e) ELSE e
    ELSE IF ~trigger THEN set_release_stage(e) ELSE e

\* The slip C4 guards against: the attack running straight into the sustain.
progress_stage_skipping_decay(e) ==
    CASE e.stage \in {"Idle", "Sustain"} -> e
      [] e.stage = "Attack"  -> set_sustain_stage(e)
      [] e.stage = "Decay"   -> set_sustain_stage(e)
      [] e.stage = "Release" -> set_idle_stage(e)

progress_stage(e) ==
    CASE e.stage \in {"Idle", "Sustain"} -> e
      [] e.stage = "Attack"  -> set_decay_stage(e)
      [] e.stage = "Decay"   -> set_sustain_stage(e)
      [] e.stage = "Release" -> set_idle_stage(e)

\* The envelope after update_stage and (when the ramp has finished) progress_stage.
AdsrEnvelope_staged(e) ==
    LET u == update_stage(e, e.trigger)
    IN  IF ~Smoother_is_active(u.ramp) THEN progress_stage(u) ELSE u

AdsrEnvelope_next(e) ==
    LET p == AdsrEnvelope_staged(e)
    IN  [p EXCEPT !.ramp = Smoother_next(@)]

\* block.iter_mut().take(block_len).for_each(|x| *x = self.next()): next()
\* block_len times over, the calls grouped in halves and the envelope looked at
\* on entry (its stage is always an AdsrStage) to keep the evaluation shallow
RECURSIVE AdsrEnvelope_next_block(_, _)
AdsrEnvelope_next_block(e, block_len) ==
    IF block_len = 0 \/ e.stage \notin AdsrStage THEN e
    ELSE IF block_len = 1 THEN AdsrEnvelope_next(e)
    ELSE LET half == block_len \div 2
         IN  AdsrEnvelope_next_block(AdsrEnvelope_next_block(e, half),
                                     block_len - half)

(***************************************************************************)
(* Ramp::next_block_exact_mapped and Smoother::next_block: the state they   *)
(* leave behind.                                                           *)
(***************************************************************************)
Min(a, b) == IF a <= b THEN a ELSE b

Max(a, b) == IF a >= b THEN a ELSE b

Ramp_next_block_exact_mapped(r, block_len) ==
    LET num_smoothed_values == Min(block_len, r.steps_remaining)
    IN  IF num_smoothed_values = 0 THEN r
        ELSE [r EXCEPT !.current_value =
                           IF num_smoothed_values = r.steps_remaining
                           THEN RAMP_TARGET
                           ELSE @ + r.step_size * num_smoothed_values,
                       !.steps_remaining = @ - num_smoothed_values]

Smoother_next_block(s, block_len) ==
    [s EXCEPT !.ramp = Ramp_next_block_exact_mapped(@, block_len)]

\* the progress values next_block_exact_mapped hands to its mapping function,
\* one for every element of the block
Ramp_block_progress(r, block_len) ==
    LET num_smoothed_values == Min(block_len, r.steps_remaining)
    IN  [k \in 1..block_len |->
            IF k > num_smoothed_values THEN RAMP_TARGET
            ELSE IF /\ num_smoothed_values = r.steps_remaining
                    /\ k = num_smoothed_values
                 THEN RAMP_TARGET
                 ELSE r.current_value + k * r.step_size]

\* the block Smoother::next_block writes: the progress values mapped from
\* the start value to the target value
Smoother_next_block_values(s, block_len) ==
    LET progress == Ramp_block_progress(s.ramp, block_len)
    IN  [k \in 1..block_len |->
            shaped(s.smoothing_type, s.start_value, s.target_value,
                   progress[k])]

\* the value skip() returns: the current value of the Smoother it leaves
Smoother_skip_value(s, num_steps) == Smoother_skip(s, num_steps).current_value

(***************************************************************************)
(* NoteEvent (app/audio/voice/audio_note.rs) and the channels.              *)
(***************************************************************************)
MAX_NOTE_EVENTS_PER_BUFFER == 12

Notes == {60, 64}

\* sample offsets the control threads stamp on events: the first frame of the
\* buffer, two offsets inside the first block and one that lies past a 64-frame
\* buffer and in the second block of a 100-frame buffer
Timings == {0, 10, 37, 70}

BufferLens == {64, 100}

\* the events the control threads send: a NoteOn at any of the offsets, a
\* NoteOff at any offset after the first frame
NoteEvent ==
    {e \in [kind : {"NoteOn", "NoteOff"}, note : Notes, timing : Timings] :
        e.timing = 0 => e.kind = "NoteOn"}

\* Option<NoteEvent>::None
NoEvent == [kind |-> "None"]

timing(event) == event.timing

\* ch.try_recv().ok(): the received event and the rest of the channel
try_recv(q) == IF q = <<>> THEN <<NoEvent, q>> ELSE <<Head(q), Tail(q)>>

(***************************************************************************)
(* VoiceHandler (app/audio/voice/voice.rs).                                *)
(***************************************************************************)
\* Option<Voice>::None
None == [some |-> FALSE]

\* Option<u64>::None, the voice_id of start_release_for_voice
NoId == 0 - 1

Slots(vs) == 1..Len(vs)

Occupied(vs) == {i \in Slots(vs) : vs[i].some}

VoiceHandler_build == [i \in 1..NUM_VOICES |-> None]

is_voice_active(vs) == \E i \in Slots(vs) : vs[i].some

\* The 64 bits of the u64 id_counter, scaled down so that the counter can be
\* followed through a whole cycle.
IdWidth == 3

\* the number of values of the id_counter
IdValues == 2 ^ IdWidth

\* An increment whose result is dropped, as in FxBank's
\* self.id_counter.wrapping_add(1);
next_voice_id_dropping_increment(counter) == counter

\* self.id_counter = self.id_counter.wrapping_add(1); self.id_counter
next_voice_id(counter) == (counter + 1) % IdValues

\* Voice { id, note, envelope: default, releasing: false, .. }, then
\* envelope.set_trigger(true)
new_voice(id, note) ==
    [some      |-> TRUE,
     id        |-> id,
     note      |-> note,
     envelope  |-> set_trigger(AdsrEnvelope_new, TRUE),
     releasing |-> FALSE]

\* self.voices.iter().position(|voice| voice.is_none()), 0 when there is none
free_idx(vs) ==
    IF \A i \in Slots(vs) : vs[i].some THEN 0
    ELSE CHOOSE i \in Slots(vs) :
            /\ ~vs[i].some
            /\ \A j \in 1..(i - 1) : vs[j].some

\* min_by_key(|voice| voice.id): the first slot holding the smallest id
oldest_voice(vs) ==
    CHOOSE i \in Slots(vs) :
        /\ \A j \in Slots(vs) : vs[i].id <= vs[j].id
        /\ \A j \in 1..(i - 1) : vs[j].id > vs[i].id

\* A pool that grows when it is full instead of stealing a voice.
start_voice_growing(vs, id, note) ==
    IF free_idx(vs) # 0
    THEN [vs EXCEPT ![free_idx(vs)] = new_voice(id, note)]
    ELSE Append(vs, new_voice(id, note))

\* A pool that steals the newest voice instead of the oldest.
start_voice_stealing_newest(vs, id, note) ==
    IF free_idx(vs) # 0
    THEN [vs EXCEPT ![free_idx(vs)] = new_voice(id, note)]
    ELSE LET newest == CHOOSE i \in Slots(vs) :
                           \A j \in Slots(vs) : vs[i].id >= vs[j].id
         IN  [vs EXCEPT ![newest] = new_voice(id, note)]

start_voice(vs, id, note) ==
    IF free_idx(vs) # 0
    THEN [vs EXCEPT ![free_idx(vs)] = new_voice(id, note)]
    ELSE [vs EXCEPT ![oldest_voice(vs)] = new_voice(id, note)]

\* A release that asks for the id and the pitch to match.
start_release_for_voice_both(vs, voice_id, note) ==
    [i \in Slots(vs) |->
        IF vs[i].some /\ (voice_id = vs[i].id /\ note = vs[i].note)
        THEN [vs[i] EXCEPT !.releasing = TRUE,
                           !.envelope = set_trigger(@, FALSE)]
        ELSE vs[i]]

start_release_for_voice(vs, voice_id, note) ==
    [i \in Slots(vs) |->
        IF vs[i].some /\ (voice_id = vs[i].id \/ note = vs[i].note)
        THEN [vs[i] EXCEPT !.releasing = TRUE,
                           !.envelope = set_trigger(@, FALSE)]
        ELSE vs[i]]

start_release_for_active_voices(vs) ==
    [i \in Slots(vs) |->
        IF vs[i].some
        THEN [vs[i] EXCEPT !.releasing = TRUE,
                           !.envelope = set_trigger(@, FALSE)]
        ELSE vs[i]]

kill_active_voices(vs) == [i \in Slots(vs) |-> None]

\* A sweep that does not wait for the envelope to become idle.
terminate_finished_voices_early(vs) ==
    [i \in Slots(vs) |->
        IF vs[i].some /\ vs[i].releasing THEN None ELSE vs[i]]

terminate_finished_voices(vs) ==
    [i \in Slots(vs) |->
        IF vs[i].some /\ vs[i].releasing /\ is_idle(vs[i].envelope)
        THEN None ELSE vs[i]]

\* process_block: the voice event, if one is waiting ...
apply_voice_event(vs, q) ==
    IF q = <<>> THEN vs
    ELSE IF Head(q).cmd = "ReleaseAll"
         THEN start_release_for_active_voices(vs)
         ELSE kill_active_voices(vs)

\* ... then every voice's envelope advances by the block
process_block(vs, q, block_len) ==
    LET after == apply_voice_event(vs, q)
    IN  [i \in Slots(after) |->
            IF after[i].some
            THEN [after[i] EXCEPT
                      !.envelope = AdsrEnvelope_next_block(@, block_len)]
            ELSE after[i]]

(***************************************************************************)
(* The mixing loop of VoiceHandler::process_block (voice.rs:161-178).      *)
(* The buffer is the interleaved stereo buffer, element i + 1 of the       *)
(* sequence being buffer[i]; samples are integers, gains and envelope      *)
(* values per-mille.                                                       *)
(***************************************************************************)
\* gain[value_idx] * voice_amp_envelope[value_idx]
voice_amp(gain, voice_amp_envelope, value_idx) ==
    FixDiv(gain[value_idx + 1] * voice_amp_envelope[value_idx + 1], RAMP_TARGET)

\* A voice that overwrites what the voices before it have mixed.
mix_voice_overwriting(buffer, out, gain, start, end) ==
    [i \in 1..Len(buffer) |->
        LET sample_idx == (i - 1) \div 2
            sample     == IF (i - 1) % 2 = 0 THEN out.sample_l ELSE out.sample_r
        IN  IF sample_idx >= start /\ sample_idx < end
            THEN FixDiv(sample * voice_amp(gain, out.envelope,
                                           sample_idx - start),
                        RAMP_TARGET)
            ELSE buffer[i]]

\* one voice: for (value_idx, sample_idx) in (start..block_end).enumerate()
\*     buffer[sample_idx * 2] += sample_l * amp;
\*     buffer[sample_idx * 2 + 1] += sample_r * amp;
mix_voice(buffer, out, gain, start, end) ==
    [i \in 1..Len(buffer) |->
        LET sample_idx == (i - 1) \div 2
            sample     == IF (i - 1) % 2 = 0 THEN out.sample_l ELSE out.sample_r
        IN  IF sample_idx >= start /\ sample_idx < end
            THEN buffer[i]
                 + FixDiv(sample * voice_amp(gain, out.envelope,
                                             sample_idx - start),
                          RAMP_TARGET)
            ELSE buffer[i]]

\* for voice in self.voices.iter_mut().filter_map(|v| v.as_mut()): outs holds,
\* for every occupied slot in order, the block its envelope produced and the
\* sample its generator returns
RECURSIVE mix_voices(_, _, _, _, _)
mix_voices(buffer, outs, gain, start, end) ==
    IF outs = <<>> THEN buffer
    ELSE mix_voices(mix_voice(buffer, Head(outs), gain, start, end),
                    Tail(outs), gain, start, end)

(***************************************************************************)
(* AudioModel (app/audio/model/mod.rs).                                    *)
(***************************************************************************)
\* (sample_rate * DSP_IDLE_HOLD_TIME_SECS) as u64, with the hold time of 0.8 s
IdleHoldSamples == (SAMPLE_RATE * 8) \div 10

\* AudioModel::set_idle_timer; process() never calls it
set_idle_timer(timer, processing) ==
    IF processing THEN IdleHoldSamples
    ELSE IF timer > 0 THEN timer - 1 ELSE 0

AudioModel_is_idle == ~is_processing /\ idle_timer_samples = 0

(***************************************************************************)
(* process() (app/audio/process.rs), one step per pass of its loops.       *)
(***************************************************************************)
\* An event taken as soon as it falls into the block ahead.
event_is_due_in_block(event, start) ==
    event # NoEvent /\ timing(event) < start + MAX_BLOCK_SIZE

\* Some(event) if (event.timing() as usize) <= block_start
event_is_due(event, start) == event # NoEvent /\ timing(event) <= start

\* A block that is not cut at the event waiting inside it.
segment_end_ignoring_event(event, end) == end

\* Some(event) if (event.timing() as usize) < block_end => block_end = timing
segment_end(event, end) ==
    IF event # NoEvent /\ timing(event) < end THEN timing(event) ELSE end

\* A block end that is not clamped to the buffer length.
following_block_end_unclamped(end, len) == end + MAX_BLOCK_SIZE

\* (block_end + MAX_BLOCK_SIZE).min(buffer_len)
following_block_end(end, len) == Min(end + MAX_BLOCK_SIZE, len)

\* A fast path taken when an event has been received.
skips_processing_on_event(event, vs, audio_is_idle) ==
    event # NoEvent /\ ~is_voice_active(vs) /\ audio_is_idle

\* next_event.is_none() && !voice_handler.is_voice_active() && audio_is_idle
skips_processing(event, vs, audio_is_idle) ==
    event = NoEvent /\ ~is_voice_active(vs) /\ audio_is_idle

\* the buffer[..] += .. of process_block: two samples for every frame of the
\* block and every voice
samples_written(vs, block_len) == 2 * block_len * Cardinality(Occupied(vs))

(***************************************************************************)
(* The engine: assembly, the control threads and the audio thread.         *)
(***************************************************************************)
\* Note events the control threads send in one run.
MaxEvents == 3
\* Voice commands the control threads issue in one run.
MaxCommands == 1
\* Audio callbacks in one run.
MaxCallbacks == 2

\* no next() call yet
NoCall == [from |-> "None", trigger |-> FALSE, via |-> "None",
           active |-> FALSE, value |-> 0]

EnvAtRest ==
    /\ env = AdsrEnvelope_new
    /\ envTrace = <<"Idle">>
    /\ envTrigLog = {}
    /\ envOut = NoCall

\* The state build_audio_model() returns: AudioModelBuilder::new() builds the
\* VoiceHandler, audio_data() the AudioData.
EngineInit ==
    /\ voices = VoiceHandler_build
    /\ id_counter = 0
    /\ generator = FALSE
    /\ voiceQ = <<>>
    /\ noteQ = <<>>
    /\ voice_gain = Smoother_new(1, 10)
    /\ is_processing = FALSE
    /\ idle_timer_samples = 0
    /\ started = FALSE
    /\ pc = "out"
    /\ buffer_len = 0
    /\ block_start = 0
    /\ block_end = 0
    /\ next_event = NoEvent
    /\ cbCount = 0
    /\ sent = 0
    /\ issued = 0
    /\ lastStep = "init"
    /\ lastPath = "none"
    /\ segs = <<>>
    /\ applied = <<>>
    /\ snap = VoiceHandler_build
    /\ quietFrames = IdleHoldSamples
    /\ bufferWrites = 0
    /\ entry = [quiet      |-> FALSE,
                voices     |-> VoiceHandler_build,
                voice_gain |-> Smoother_new(1, 10)]
    /\ noteLog = [received |-> 0, origin |-> <<>>]
    /\ relLog = [frames |-> [i \in 1..NUM_VOICES |-> 0 - 1], swept |-> {}]

RelAtRest ==
    /\ relPool = VoiceHandler_build
    /\ relCall = <<>>
    /\ relOut = VoiceHandler_build

\* no operation on the stand-alone Ramp yet
NoRampOp == [op |-> "none", before |-> Ramp_new(0), ret |-> 0,
             advances |-> 0 - 1, ops |-> 0]

RampAtRest ==
    /\ ramp = Ramp_new(0)
    /\ rampObs = NoRampOp

\* no operation on the stand-alone Smoother yet
NoSmootherOp == [op |-> "none", ret |-> 0, prevRet |-> 0, phase |-> "other",
                 sinceFinish |-> FALSE, ops |-> 0]

SmootherAtRest ==
    /\ sm = Smoother_new(0, 0)
    /\ smObs = NoSmootherOp

MixAtRest ==
    /\ mixBuffer = <<>>
    /\ mixCall = <<>>

IdsAtRest ==
    /\ idsHandler = [voices |-> VoiceHandler_build, id_counter |-> 0]
    /\ idsIssued = <<>>

\* no call on the envelope that is being configured yet
NoCfgCall == [op |-> "none", outcome |-> "returned", setters |-> 0,
              nexts |-> 0]

CfgAtRest ==
    /\ cfgEnv = AdsrEnvelope_new
    /\ cfgBuild = [debug_assertions |-> TRUE]
    /\ cfgCall = NoCfgCall

\* no call on the Smoother advanced in blocks yet
NoBlkCall == [op |-> "none", n |-> 0, values |-> <<>>, after |-> <<>>,
              nextValues |-> <<>>, nextAfter |-> <<>>, ops |-> 0]

BlkAtRest ==
    /\ blkSm = Smoother_new(0, 0)
    /\ blkObs = NoBlkCall

\* AudioModelBuilder::PREPARED_CHECKSUM, 0b0000_1111
PREPARED_CHECKSUM == 15

\* AudioModelBuilder::new: prepared_state: 0b0000_0000
AudioModelBuilder_new == [prepared_state |-> 0, outcome |-> "building"]

BuilderAtRest ==
    /\ builder = AudioModelBuilder_new
    /\ builderCalls = <<>>

\* no call on the TimerThread yet
NoTimerCall == [op |-> "none", n |-> 0, calls |-> 0, wasRunning |-> FALSE,
                ops |-> 0]

\* TimerThread::new
TimerAtRest ==
    /\ thread = FALSE
    /\ continue_sentinel = FALSE
    /\ timeout_counter = 0
    /\ counter_secs = 0
    /\ interval_secs = 0
    /\ timerPc = "none"
    /\ ownerPc = "idle"
    /\ timerObs = NoTimerCall

LateAtRest ==
    IdsAtRest /\ CfgAtRest /\ BlkAtRest /\ BuilderAtRest /\ TimerAtRest

EarlyAtRest ==
    /\ EngineInit /\ EnvAtRest /\ RelAtRest
    /\ RampAtRest /\ SmootherAtRest /\ MixAtRest

UnitsAtRest == RampAtRest /\ SmootherAtRest /\ MixAtRest /\ LateAtRest

Init == EngineInit /\ EnvAtRest /\ RelAtRest /\ UnitsAtRest

\* the frames counted for the slots of the pool after, given those counted
\* for the pool before: none for a slot that holds no releasing voice, a
\* new count for a voice that has just been marked
FramesSinceRelease(before, after, frames) ==
    [i \in Slots(after) |->
        IF ~after[i].some \/ ~after[i].releasing THEN 0 - 1
        ELSE IF /\ before[i].some
                /\ before[i].id = after[i].id
                /\ before[i].releasing
             THEN frames[i]
             ELSE 0]

\* VoiceHandler::attach_generator_osc, open to the code that owns the model
\* until the stream takes it
AttachGeneratorOsc ==
    /\ ~started
    /\ ~generator
    /\ generator' = TRUE
    /\ UNCHANGED <<voices, id_counter, voiceQ, noteQ, voice_gain, is_processing,
                   idle_timer_samples, started, pc, buffer_len, block_start,
                   block_end, next_event, cbCount, sent, issued, lastStep,
                   lastPath, segs, applied, snap, quietFrames, bufferWrites, entry,
                   noteLog,
                   relLog, restVars>>

\* build_audio_system: new_output_stream(audio_model).render(process), play()
StartStream ==
    /\ ~started
    /\ started' = TRUE
    /\ \E len \in BufferLens : buffer_len' = len
    /\ UNCHANGED <<voices, id_counter, generator, voiceQ, noteQ, voice_gain,
                   is_processing, idle_timer_samples, pc,
                   block_start, block_end, next_event, cbCount, sent, issued,
                   lastStep, lastPath, segs, applied, snap, quietFrames,
                   bufferWrites, entry, noteLog,
                   relLog, restVars>>

\* A control thread sends a NoteEvent on the bounded channel. An event sent
\* while process() runs is either received by a later try_recv of that call,
\* as if it had been sent before the call, or stays in the channel, as if it
\* had been sent after it; so the sends are placed between the callbacks.
Enqueue ==
    /\ started
    /\ pc = "out"
    /\ sent < MaxEvents
    /\ Len(noteQ) < MAX_NOTE_EVENTS_PER_BUFFER
    /\ \E event \in NoteEvent : noteQ' = Append(noteQ, event)
    /\ sent' = sent + 1
    /\ UNCHANGED <<voices, id_counter, generator, voiceQ, voice_gain,
                   is_processing, idle_timer_samples, started, pc, buffer_len,
                   block_start, block_end, next_event, cbCount, issued,
                   lastStep, lastPath, segs, applied, snap, quietFrames,
                   bufferWrites, entry, noteLog,
                   relLog, restVars>>

\* A control thread sends a VoiceEvent on voice_event_sender, between two
\* callbacks; the event records the number of callbacks begun by then.
IssueVoiceEvent ==
    /\ started
    /\ pc = "out"
    /\ issued < MaxCommands
    /\ \E cmd \in {"ReleaseAll", "KillAll"} :
          voiceQ' = Append(voiceQ, [cmd |-> cmd, at |-> cbCount,
                                    sent |-> sent])
    /\ issued' = issued + 1
    /\ UNCHANGED <<voices, id_counter, generator, noteQ, voice_gain,
                   is_processing, idle_timer_samples, started, pc, buffer_len,
                   block_start, block_end, next_event, cbCount, sent,
                   lastStep, lastPath, segs, applied, snap, quietFrames,
                   bufferWrites, entry, noteLog,
                   relLog, restVars>>

\* process(), lines 23-50: the first try_recv and the idle fast path
CallbackBegin ==
    /\ started
    /\ pc = "out"
    /\ cbCount < MaxCallbacks
    /\  LET audio_is_idle == AudioModel_is_idle
            received == try_recv(noteQ)
        IN  /\ noteQ' = received[2]
            /\ cbCount' = cbCount + 1
            /\ segs' = <<>>
            /\ applied' = <<>>
            /\ bufferWrites' = 0
            /\ noteLog' = [noteLog EXCEPT
                              !.received = IF received[1] = NoEvent THEN 0 ELSE 1]
            /\ entry' = [quiet      |-> /\ noteQ = <<>>
                                        /\ Occupied(voices) = {}
                                        /\ AudioModel_is_idle,
                         voices     |-> voices,
                         voice_gain |-> voice_gain]
            /\ IF skips_processing(received[1], voices, audio_is_idle)
               THEN /\ lastPath' = "fast"
                    /\ lastStep' = "fast"
                    /\ UNCHANGED <<pc, block_start, block_end, next_event>>
               ELSE /\ lastPath' = "full"
                    /\ lastStep' = "begin"
                    /\ pc' = "run"
                    /\ block_start' = 0
                    /\ block_end' = Min(MAX_BLOCK_SIZE, buffer_len)
                    /\ next_event' = received[1]
    /\ UNCHANGED <<voices, id_counter, generator, voiceQ, voice_gain,
                   is_processing, idle_timer_samples, started, buffer_len,
                   sent, issued, snap, quietFrames, relLog, restVars>>

\* process(), lines 59-80: the event at the head is due and is applied, then
\* the next one is received
ApplyEvent ==
    /\ pc = "run"
    /\ event_is_due(next_event, block_start)
    /\ snap' = voices
    /\ IF next_event.kind = "NoteOn"
       THEN /\ id_counter' = next_voice_id(id_counter)
            /\ IF generator
               THEN /\ voices' = start_voice(voices, next_voice_id(id_counter),
                                             next_event.note)
                    /\ pc' = pc
               ELSE \* .expect("expected reference to generator type")
                    /\ voices' = voices
                    /\ pc' = "panicked"
       ELSE /\ voices' = start_release_for_voice(voices, NoId, next_event.note)
            /\ UNCHANGED <<id_counter, pc>>
    /\ IF pc' = "panicked"
       THEN UNCHANGED <<noteQ, next_event, applied, lastStep, quietFrames,
                        noteLog>>
       ELSE /\ next_event' = try_recv(noteQ)[1]
            /\ noteLog' = [received |-> IF try_recv(noteQ)[1] = NoEvent
                                        THEN noteLog.received
                                        ELSE noteLog.received + 1,
                           origin   |-> IF next_event.kind = "NoteOn"
                                        THEN Append(noteLog.origin,
                                                    sent - Len(noteQ))
                                        ELSE noteLog.origin]
            /\ noteQ' = try_recv(noteQ)[2]
            /\ applied' = Append(applied, [timing |-> timing(next_event),
                                           at     |-> block_start,
                                           nseg   |-> Len(segs)])
            /\ lastStep' = IF next_event.kind = "NoteOn" THEN "on" ELSE "off"
            /\ quietFrames' = IF is_voice_active(voices') THEN 0 ELSE quietFrames
    /\ relLog' = [frames |-> FramesSinceRelease(voices, voices', relLog.frames),
                  swept  |-> relLog.swept]
    /\ UNCHANGED <<generator, voiceQ, voice_gain, is_processing,
                   idle_timer_samples, started, buffer_len, block_start,
                   block_end, cbCount, sent, issued, lastPath, segs,
                   bufferWrites, entry, restVars>>

\* process(), lines 83-101: no event is due, so the segment up to the next
\* event or block end is rendered and swept
ProcessSegment ==
    /\ pc = "run"
    /\ ~event_is_due(next_event, block_start)
    /\ LET end       == segment_end(next_event, block_end)
           block_len == end - block_start
           processed == process_block(voices, voiceQ, block_len)
       IN  /\ voice_gain' = Smoother_next_block(voice_gain, block_len)
           /\ voiceQ' = IF voiceQ = <<>> THEN voiceQ ELSE Tail(voiceQ)
           /\ snap' = processed
           /\ bufferWrites' = bufferWrites
                                + samples_written(apply_voice_event(voices, voiceQ),
                                                  block_len)
           /\ voices' = terminate_finished_voices(processed)
           /\ LET marked == FramesSinceRelease(
                                voices, apply_voice_event(voices, voiceQ),
                                relLog.frames)
                  counted == [i \in Slots(voices) |->
                                 IF marked[i] < 0 THEN marked[i]
                                 ELSE marked[i] + block_len]
              IN  relLog' =
                     [frames |-> [i \in Slots(voices) |->
                                     IF voices'[i].some THEN counted[i]
                                     ELSE 0 - 1],
                      swept  |-> {counted[i] : i \in
                                     {k \in Slots(voices) :
                                         counted[k] >= 0 /\ ~voices'[k].some}}]
           /\ segs' = Append(segs, [start   |-> block_start,
                                    end     |-> end,
                                    pending |-> IF next_event = NoEvent
                                                THEN 0 - 1
                                                ELSE timing(next_event)])
           /\ quietFrames' = IF is_voice_active(processed) THEN 0
                             ELSE Min(IdleHoldSamples, quietFrames + block_len)
           /\ IF end < buffer_len
              THEN /\ block_start' = end
                   /\ block_end' = following_block_end(end, buffer_len)
                   /\ UNCHANGED <<pc, next_event>>
              ELSE \* the loop ends and process() returns
                   /\ pc' = "out"
                   /\ block_start' = 0
                   /\ block_end' = 0
                   /\ next_event' = NoEvent
    /\ lastStep' = "segment"
    /\ UNCHANGED <<id_counter, generator, noteQ, is_processing,
                   idle_timer_samples, started, buffer_len, cbCount, sent,
                   issued, lastPath, applied, entry, noteLog,
                   restVars>>

Next ==
    \/ AttachGeneratorOsc
    \/ StartStream
    \/ Enqueue
    \/ IssueVoiceEvent
    \/ CallbackBegin
    \/ ApplyEvent
    \/ ProcessSegment

Spec == Init /\ [][Next]_vars

EngineAtRest == EngineInit

(***************************************************************************)
(* C1                                                                      *)
(***************************************************************************)
Full(vs) == \A i \in Slots(vs) : vs[i].some

\* C1: whatever NoteOn/NoteOff events, release-all/kill-all commands and
\* segments have been processed, the pool has exactly its NUM_VOICES slots
\* and at most NUM_VOICES of them are occupied.
C1_PoolNeverGrows ==
    /\ Len(voices) = NUM_VOICES
    /\ Cardinality(Occupied(voices)) <= NUM_VOICES

\* a NoteOn has just been applied to a pool that was full
C1_Witness ==
    /\ lastStep = "on"
    /\ Full(snap)
    /\ Full(voices)

(***************************************************************************)
(* C2                                                                      *)
(***************************************************************************)
ChangedSlots == {i \in Slots(snap) : voices[i] # snap[i]}

\* C2: start_voice changes exactly one slot. On a full pool it is the slot
\* that held the smallest id, replaced in place by the new voice; otherwise it
\* is a slot that was free, and no occupied slot changes.
C2_StartVoiceReplacesInPlace ==
    lastStep = "on" =>
        /\ Len(voices) = Len(snap)
        /\ Cardinality(ChangedSlots) = 1
        /\ \A i \in ChangedSlots :
              /\ voices[i].some
              /\ voices[i].id = id_counter
              /\ IF Full(snap)
                 THEN \A j \in Slots(snap) : snap[i].id <= snap[j].id
                 ELSE ~snap[i].some

\* the new voice has taken the place of the oldest of a full pool and the
\* other voices are still there
C2_Witness ==
    /\ lastStep = "on"
    /\ Full(snap)
    /\ \E i \in Slots(voices) :
          /\ voices[i].id = id_counter
          /\ snap[i].id = id_counter - NUM_VOICES
          /\ \A j \in Slots(voices) \ {i} : voices[j] = snap[j]

(***************************************************************************)
(* C3                                                                      *)
(***************************************************************************)
\* the end of segment k is the minimum of the buffer length, the segment's
\* start plus MAX_BLOCK_SIZE and the timing of the event waiting at its start
SegmentsSplitAtEvents ==
    \A k \in 1..Len(segs) :
        LET s == segs[k]
            limit == Min(buffer_len, s.start + MAX_BLOCK_SIZE)
        IN  /\ s.start = IF k = 1 THEN 0 ELSE segs[k - 1].end
            /\ s.end = IF s.pending >= 0 THEN Min(limit, s.pending) ELSE limit

\* the position at which the k-th applied event had to wait for its turn
ArrivedAt(k) == IF k = 1 THEN 0 ELSE applied[k - 1].at

\* an applied event sits between the segment ending and the segment starting
\* at the position it was applied at
AppliedAtBoundary(k) ==
    LET a == applied[k]
    IN  /\ IF a.nseg = 0 THEN a.at = 0 ELSE segs[a.nseg].end = a.at
        /\ Len(segs) > a.nseg => segs[a.nseg + 1].start = a.at

Example64 ==
    /\ pc = "out"
    /\ lastPath = "full"
    /\ buffer_len = 64
    /\ [k \in 1..Len(applied) |-> applied[k].timing] = <<10, 37>>

Example64Segments ==
    /\ [k \in 1..Len(segs) |-> <<segs[k].start, segs[k].end>>]
          = << <<0, 10>>, <<10, 37>>, <<37, 64>> >>
    /\ applied[1].nseg = 1
    /\ applied[2].nseg = 2

Finished(v) == v.some /\ v.releasing /\ is_idle(v.envelope)

\* C7: the sweep at the end of every processed segment clears exactly the
\* slots whose voice is releasing with an idle envelope and leaves every
\* other slot as it is; so after a segment no slot holds a releasing voice
\* with an idle envelope, and no voice that is not releasing has been cleared.
C7_SweepClearsFinishedOnly ==
    lastStep = "segment" =>
        /\ \A i \in Slots(snap) :
              voices[i] = IF Finished(snap[i]) THEN None ELSE snap[i]
        /\ \A i \in Slots(voices) : ~Finished(voices[i])

\* a segment after which one voice was swept, one that is releasing but not
\* yet idle was kept
C7_Witness ==
    /\ lastStep = "segment"
    /\ \E i, j \in Slots(snap) :
          /\ Finished(snap[i])
          /\ voices[i] = None
          /\ snap[j].some
          /\ snap[j].releasing
          /\ voices[j] = snap[j]

(***************************************************************************)
(* C8                                                                      *)
(***************************************************************************)
\* C8: a NoteOn applied in the audio callback never panics, the generator
\* reference having been attached before the stream started.
C8_NoteOnNeverPanics == pc # "panicked"

(***************************************************************************)
(* C9                                                                      *)
(***************************************************************************)
\* C9: a kill_all or release_all issued between two callbacks is consumed in
\* the very next callback, before that callback renders a segment: a command
\* still in the channel was issued after the last callback began, or the next
\* callback has begun and has not yet rendered.
C9_CommandConsumedByNextCallback ==
    \A k \in 1..Len(voiceQ) :
        \/ voiceQ[k].at = cbCount
        \/ /\ voiceQ[k].at + 1 = cbCount
           /\ pc = "run"
           /\ segs = <<>>

(***************************************************************************)
(* C10                                                                     *)
(***************************************************************************)
\* C10: a callback takes the idle fast path only when the frames rendered
\* since the pool was last occupied cover the idle hold time.
C10_HoldBeforeFastPath ==
    lastPath = "fast" => quietFrames >= IdleHoldSamples

(***************************************************************************)
(* C11                                                                     *)
(***************************************************************************)
\* C11: a callback invoked with an empty event queue, no occupied voice slot
\* and the idle timer expired has returned without writing a sample of the
\* output buffer and with the voice pool and the voice-gain smoother as it
\* found them.
C11_QuietCallbackChangesNothing ==
    (cbCount > 0 /\ entry.quiet) =>
        /\ pc = "out"
        /\ bufferWrites = 0
        /\ voices = entry.voices
        /\ voice_gain = entry.voice_gain

\* the second callback found the engine quiet after the first had played and
\* swept a voice
C11_Witness ==
    /\ cbCount = 2
    /\ entry.quiet
    /\ lastPath = "fast"
    /\ id_counter > 0

(***************************************************************************)
(* start_release_for_voice called directly, on pools the engine can hold.  *)
(***************************************************************************)
\* ids of the voices of the pools the call is tried on
MaxRelId == 3

\* a voice as start_voice leaves it, one that has begun its attack, and one
\* that was released during its attack
RelVoiceChoices ==
    LET fresh    == set_trigger(AdsrEnvelope_new, TRUE)
        attack   == AdsrEnvelope_next(fresh)
        released == AdsrEnvelope_next(set_trigger(attack, FALSE))
    IN  {[some |-> TRUE, id |-> id, note |-> note, envelope |-> fresh,
          releasing |-> FALSE] : id \in 1..MaxRelId, note \in Notes}
        \cup
        {[some |-> TRUE, id |-> id, note |-> note, envelope |-> attack,
          releasing |-> FALSE] : id \in 1..MaxRelId, note \in Notes}
        \cup
        {[some |-> TRUE, id |-> id, note |-> note, envelope |-> released,
          releasing |-> TRUE] : id \in 1..MaxRelId, note \in Notes}

\* ids are unique among the voices of a pool
RelPools ==
    {p \in [1..NUM_VOICES -> RelVoiceChoices \cup {None}] :
        \A i, j \in 1..NUM_VOICES :
            (i # j /\ p[i].some /\ p[j].some) => p[i].id # p[j].id}

InitRel ==
    /\ relPool \in RelPools
    /\ relCall = <<>>
    /\ relOut = relPool
    /\ EngineInit
    /\ EnvAtRest
    /\ UnitsAtRest

RelStartRelease ==
    /\ relCall = <<>>
    /\ \E voice_id \in {NoId} \cup (1..MaxRelId), note \in Notes :
          /\ relCall' = <<voice_id, note>>
          /\ relOut' = start_release_for_voice(relPool, voice_id, note)
    /\ UNCHANGED <<relPool, engineVars, envVars, unitVars>>

NextRel == RelStartRelease

SpecRel == InitRel /\ [][NextRel]_vars

(***************************************************************************)
(* C6                                                                      *)
(***************************************************************************)
Matches(v, call) == v.some /\ (v.id = call[1] \/ v.note = call[2])

Marked(v) == [v EXCEPT !.releasing = TRUE, !.envelope.trigger = FALSE]

\* the pool of the example: voice 1 at pitch 60, voice 2 at pitch 64
ExamplePool ==
    /\ relPool[1].some /\ relPool[1].id = 1 /\ relPool[1].note = 60
    /\ relPool[2].some /\ relPool[2].id = 2 /\ relPool[2].note = 64
    /\ \A i \in 3..Len(relPool) : ~relPool[i].some
    /\ ~relPool[1].releasing
    /\ ~relPool[2].releasing

\* C6: start_release_for_voice(id_opt, pitch) sets releasing and clears the
\* trigger on exactly the occupied voices whose id is id_opt or whose pitch is
\* pitch, and leaves every other slot as it was. On voices {1, 60} and
\* {2, 64} the call (Some(1), 60) marks voice 1 only, and (None, 60) marks
\* the voices of pitch 60.
C6_ReleaseMarksMatchingVoices ==
    relCall # <<>> =>
        /\ \A i \in Slots(relPool) :
              relOut[i] = IF Matches(relPool[i], relCall)
                          THEN Marked(relPool[i]) ELSE relPool[i]
        /\ (ExamplePool /\ relCall \in {<<1, 60>>, <<NoId, 60>>}) =>
              /\ relOut[1].releasing
              /\ ~relOut[1].envelope.trigger
              /\ relOut[2] = relPool[2]

\* (None, 60) on a pool with two voices of pitch 60 that were not releasing:
\* both are marked
C6_Witness ==
    /\ relCall = <<NoId, 60>>
    /\ \E i, j \in Slots(relPool) :
          /\ i # j
          /\ relPool[i].some /\ relPool[i].note = 60 /\ ~relPool[i].releasing
          /\ relPool[j].some /\ relPool[j].note = 60 /\ ~relPool[j].releasing
          /\ relOut[i].releasing
          /\ relOut[j].releasing

(***************************************************************************)
(* The stand-alone envelope, driven as tests::correct_stages drives it.    *)
(***************************************************************************)
\* <<attack, decay, sustain level, release>> given to set_parameters
EnvParameterChoices == {<<10, 10, 500, 10>>, <<0, 10, 500, 10>>, <<10, 0, 1000, 0>>}

\* The stages one next() call passes through, appended to the history.
StagesOfNext(trace, e) ==
    LET u  == update_stage(e, e.trigger).stage
        p  == AdsrEnvelope_staged(e).stage
        t1 == IF u # trace[Len(trace)] THEN Append(trace, u) ELSE trace
    IN  IF p # t1[Len(t1)] THEN Append(t1, p) ELSE t1

InitEnv ==
    /\ \E c \in EnvParameterChoices :
          env = set_parameters(AdsrEnvelope_new, c[1], c[2], c[3], c[4])
    /\ envTrace = <<"Idle">>
    /\ envTrigLog = {}
    /\ envOut = NoCall
    /\ EngineAtRest
    /\ RelAtRest
    /\ UnitsAtRest

EnvSetTrigger ==
    /\ \E b \in BOOLEAN :
          /\ env' = set_trigger(env, b)
          /\ envTrigLog' = IF b # env.trigger
                           THEN envTrigLog \cup {<<env.stage, b>>}
                           ELSE envTrigLog
    /\ UNCHANGED <<envTrace, envOut, engineVars, relVars, unitVars>>

EnvNext ==
    /\ Len(envTrace) < MaxTrace
    /\ env' = AdsrEnvelope_next(env)
    /\ envTrace' = StagesOfNext(envTrace, env)
    \* the stage and trigger the call found, the stage update_stage left, whether
    \* ramp.next() found the ramp active, and the value returned
    /\ envOut' = [from    |-> env.stage,
                  trigger |-> env.trigger,
                  via     |-> update_stage(env, env.trigger).stage,
                  active  |-> Smoother_is_active(AdsrEnvelope_staged(env).ramp),
                  value   |-> AdsrEnvelope_next(env).ramp.current_value]
    /\ UNCHANGED <<envTrigLog, engineVars, relVars, unitVars>>

NextEnv == EnvSetTrigger \/ EnvNext

SpecEnv == InitEnv /\ [][NextEnv]_vars

(***************************************************************************)
(* C4                                                                      *)
(***************************************************************************)
StageCycle == <<"Idle", "Attack", "Decay", "Sustain", "Release">>

CycleAt(i) == StageCycle[((i - 1) % 5) + 1]

C4_Scenario ==
    /\ env.parameters.attack_time_ms = 10
    /\ env.parameters.decay_time_ms = 10
    /\ env.parameters.release_time_ms = 10
    /\ env.parameters.sustain_level = 500
    /\ envTrigLog \subseteq {<<"Idle", TRUE>>, <<"Sustain", FALSE>>}

\* C4: with attack = decay = release = 10 samples and sustain 0.5, an envelope
\* whose trigger is only ever raised in Idle and only ever dropped in Sustain
\* passes through the stages in the order Idle, Attack, Decay, Sustain,
\* Release, Idle: its stage history is a prefix of that cycle, no stage is
\* skipped, repeated or out of order.
C4_StageOrder ==
    C4_Scenario => \A i \in 1..Len(envTrace) : envTrace[i] = CycleAt(i)

C4_Witness ==
    /\ C4_Scenario
    /\ envTrace = <<"Idle", "Attack", "Decay", "Sustain", "Release", "Idle">>

(***************************************************************************)
(* C12                                                                     *)
(***************************************************************************)
\* the last two stages of the history
LastTwo(trace) == IF Len(trace) < 2 THEN <<>>
                  ELSE <<trace[Len(trace) - 1], trace[Len(trace)]>>

\* C12: a next() call that finds the envelope in Release with the trigger
\* true moves it to Attack in its update_stage, so that the stage history
\* has Attack right after that Release and no Idle between them; the call
\* leaves the envelope in Attack, or in Decay when the attack time is 0 and
\* the attack has already run out in the same call.
C12_RetriggerInReleaseAttacks ==
    (envOut.from = "Release" /\ envOut.trigger) =>
        /\ envOut.via = "Attack"
        /\ \/ /\ env.stage = "Attack"
              /\ LastTwo(envTrace) = <<"Release", "Attack">>
           \/ /\ env.stage = "Decay"
              /\ env.parameters.attack_time_ms = 0
              /\ Len(envTrace) >= 3
              /\ envTrace[Len(envTrace) - 2] = "Release"
              /\ envTrace[Len(envTrace) - 1] = "Attack"

\* the envelope went through a whole cycle into Release and was triggered
\* again there
C12_Witness ==
    /\ envOut.from = "Release"
    /\ envOut.trigger
    /\ envTrace = <<"Idle", "Attack", "Decay", "Sustain", "Release", "Attack">>

(***************************************************************************)
(* C13                                                                     *)
(***************************************************************************)
\* the value of a stage: 0 in Idle and Release, the attack level in Attack,
\* the sustain level in Decay and Sustain
StageValue(e) ==
    CASE e.stage \in {"Idle", "Release"}  -> 0
      [] e.stage = "Attack"               -> e.parameters.attack_level
      [] e.stage \in {"Decay", "Sustain"} -> e.parameters.sustain_level

\* C13: in every reachable state of an envelope, from its construction on,
\* the target value of its Smoother is the value of its current stage.
C13_TargetIsStageValue ==
    env.ramp.target_value = StageValue(env)

(***************************************************************************)
(* C14                                                                     *)
(***************************************************************************)
\* C14: a next() call that finds the envelope in Sustain with the trigger
\* true leaves it in Sustain, finds the Smoother's ramp inactive, so that no
\* ramp step is consumed, and returns the sustain level.
C14_SustainHoldsWithoutRamp ==
    (envOut.from = "Sustain" /\ envOut.trigger) =>
        /\ env.stage = "Sustain"
        /\ ~envOut.active
        /\ envOut.value = env.parameters.sustain_level

(***************************************************************************)
(* A Ramp on its own, driven through every operation it has.               *)
(***************************************************************************)
\* duration_ms of the ramps tried
RampDurations == {0, 2, 3}

\* num_steps of skip() and the block lengths tried
RampLens == {1, 2}

\* values handed to reset_to: in range, and out of range on either side
RampResetValues == {0 - 500, 500, 1500}

InitRamp ==
    /\ \E d \in RampDurations : ramp = Ramp_new(d)
    /\ rampObs = NoRampOp
    /\ SmootherAtRest
    /\ MixAtRest
    /\ EngineAtRest
    /\ EnvAtRest
    /\ RelAtRest
    /\ LateAtRest

\* the observer after an operation: advances counts the single-step advances
\* made since the last reset() with no other operation between, -1 otherwise
RampObserved(op, ret, advances) ==
    [op |-> op, before |-> ramp, ret |-> ret, advances |-> advances,
     ops |-> rampObs.ops + 1]

RampNext ==
    /\ rampObs.ops < MaxRampOps
    /\ ramp' = Ramp_next(ramp)
    /\ rampObs' = RampObserved("next", Ramp_skip_value(ramp, 1),
                               IF rampObs.advances >= 0
                               THEN rampObs.advances + 1 ELSE 0 - 1)
    /\ UNCHANGED exceptRamp

RampSkip ==
    /\ rampObs.ops < MaxRampOps
    /\ \E n \in RampLens \cup {0} :
          /\ ramp' = Ramp_skip(ramp, n)
          /\ rampObs' = RampObserved("skip", Ramp_skip_value(ramp, n), 0 - 1)
    /\ UNCHANGED exceptRamp

RampNextBlockExact ==
    /\ rampObs.ops < MaxRampOps
    /\ \E n \in RampLens :
          /\ ramp' = Ramp_next_block_exact(ramp, n)
          /\ rampObs' = RampObserved("next_block_exact", 0, 0 - 1)
    /\ UNCHANGED exceptRamp

RampNextBlockExactMapped ==
    /\ rampObs.ops < MaxRampOps
    /\ \E n \in RampLens :
          /\ ramp' = Ramp_next_block_exact_mapped(ramp, n)
          /\ rampObs' = RampObserved("next_block_exact_mapped", 0, 0 - 1)
    /\ UNCHANGED exceptRamp

RampReset ==
    /\ rampObs.ops < MaxRampOps
    /\ ramp' = Ramp_reset(ramp)
    /\ rampObs' = RampObserved("reset", 0, 0)
    /\ UNCHANGED exceptRamp

RampResetTo ==
    /\ rampObs.ops < MaxRampOps
    /\ \E v \in RampResetValues :
          /\ ramp' = Ramp_reset_to(ramp, v)
          /\ rampObs' = RampObserved("reset_to", 0, 0 - 1)
    /\ UNCHANGED exceptRamp

RampSetDuration ==
    /\ rampObs.ops < MaxRampOps
    /\ \E d \in RampDurations :
          /\ ramp' = Ramp_set_duration(ramp, d)
          /\ rampObs' = RampObserved("set_duration", 0, 0 - 1)
    /\ UNCHANGED exceptRamp

NextRamp ==
    \/ RampNext
    \/ RampSkip
    \/ RampNextBlockExact
    \/ RampNextBlockExactMapped
    \/ RampReset
    \/ RampResetTo
    \/ RampSetDuration

SpecRamp == InitRamp /\ [][NextRamp]_vars

(***************************************************************************)
(* C15                                                                     *)
(***************************************************************************)
\* ceil(R * D / 1000)
CeilSamples(duration_ms) == (SAMPLE_RATE * duration_ms + 999) \div 1000

RampAdvances == {"next", "skip", "next_block_exact", "next_block_exact_mapped"}

RampBlockAdvances == {"next_block_exact", "next_block_exact_mapped"}

\* C16: whatever operations a ramp has gone through, its progress is within
\* [0, 1]; an advance does not decrease it; after an advance that takes the
\* last step the progress is exactly 1; and after a block advance that leaves
\* steps to take the progress is below 1.
C16_ProgressWithinUnitInterval ==
    /\ ramp.current_value >= 0
    /\ ramp.current_value <= RAMP_TARGET
    /\ rampObs.op \in RampAdvances =>
          ramp.current_value >= rampObs.before.current_value
    /\ (/\ rampObs.op \in RampAdvances
        /\ rampObs.before.steps_remaining > 0
        /\ ramp.steps_remaining = 0) =>
          ramp.current_value = RAMP_TARGET
    /\ (rampObs.op \in RampBlockAdvances /\ ramp.steps_remaining > 0) =>
          ramp.current_value < RAMP_TARGET

(***************************************************************************)
(* C17                                                                     *)
(***************************************************************************)
\* C17: a ramp that has just been constructed, or whose last operation was
\* set_duration, reset or reset_to, and that has steps to take, has a step
\* size of (1 - current_value) / steps_remaining.
C17_StepSizeRecomputed ==
    (/\ rampObs.op \in {"none", "set_duration", "reset", "reset_to"}
     /\ ramp.steps_remaining > 0) =>
        ramp.step_size = FixDiv(RAMP_TARGET - ramp.current_value,
                                ramp.steps_remaining)

(***************************************************************************)
(* A Smoother on its own.                                                  *)
(***************************************************************************)
\* smoothing periods (ms) and target values tried
SmootherPeriods == {0, 2, 4}

SmootherTargets == {0, 500, 1000}

InitSmoother ==
    /\ \E d \in SmootherPeriods, t \in SmootherTargets : sm = Smoother_new(d, t)
    /\ smObs = NoSmootherOp
    /\ RampAtRest
    /\ MixAtRest
    /\ EngineAtRest
    /\ EnvAtRest
    /\ RelAtRest
    /\ LateAtRest

\* next(): ret is the value returned and prevRet the one returned before it.
\* phase is "after" when this is the first next() after a set_target_value
\* that itself followed a next().
SmootherNext ==
    /\ smObs.ops < MaxSmootherOps
    /\ sm' = Smoother_next(sm)
    /\ smObs' = [op          |-> "next",
                 ret         |-> Smoother_next(sm).current_value,
                 prevRet     |-> smObs.ret,
                 phase       |-> IF smObs.phase = "set" THEN "after" ELSE "next",
                 sinceFinish |-> smObs.sinceFinish,
                 ops         |-> smObs.ops + 1]
    /\ UNCHANGED exceptSmoother

SmootherSetTargetValue ==
    /\ smObs.ops < MaxSmootherOps
    /\ \E t \in SmootherTargets : sm' = Smoother_set_target_value(sm, t)
    /\ smObs' = [smObs EXCEPT !.op = "set_target_value",
                              !.phase = IF smObs.op = "next" THEN "set" ELSE "other",
                              !.sinceFinish = FALSE,
                              !.ops = @ + 1]
    /\ UNCHANGED exceptSmoother

SmootherFinish ==
    /\ smObs.ops < MaxSmootherOps
    /\ sm' = Smoother_finish(sm)
    /\ smObs' = [smObs EXCEPT !.op = "finish", !.phase = "other",
                              !.sinceFinish = TRUE, !.ops = @ + 1]
    /\ UNCHANGED exceptSmoother

SmootherSetSmoothingPeriod ==
    /\ smObs.ops < MaxSmootherOps
    /\ \E d \in SmootherPeriods : sm' = Smoother_set_smoothing_period(sm, d)
    /\ smObs' = [smObs EXCEPT !.op = "set_smoothing_period", !.phase = "other",
                              !.sinceFinish = FALSE, !.ops = @ + 1]
    /\ UNCHANGED exceptSmoother

NextSmoother ==
    \/ SmootherNext
    \/ SmootherSetTargetValue
    \/ SmootherFinish
    \/ SmootherSetSmoothingPeriod

SpecSmoother == InitSmoother /\ [][NextSmoother]_vars

(***************************************************************************)
(* C18                                                                     *)
(***************************************************************************)
Abs(x) == IF x < 0 THEN 0 - x ELSE x

Between(x, a, b) == (a <= x /\ x <= b) \/ (b <= x /\ x <= a)

\* one step of a ramp from a to b over the Smoother's period, rounded up; the
\* whole way when the period is 0
OneRampStep(s, a, b) ==
    IF Ramp_duration_samples(s.ramp) = 0 THEN Abs(b - a)
    ELSE FixDiv(Abs(b - a), Ramp_duration_samples(s.ramp)) + 1

\* C18: the first value next() returns after a set_target_value(t) lies
\* between the value next() returned just before the call and t, and is at
\* most one ramp step away from the former.
C18_NoJumpOnNewTarget ==
    smObs.phase = "after" =>
        /\ Between(smObs.ret, smObs.prevRet, sm.target_value)
        /\ Abs(smObs.ret - smObs.prevRet)
               <= OneRampStep(sm, smObs.prevRet, sm.target_value)

(***************************************************************************)
(* C19                                                                     *)
(***************************************************************************)
\* C19: after finish(), and whatever number of next() calls that follow it,
\* the Smoother is not active and each of these next() calls has returned
\* exactly the target value.
C19_FinishReachesTarget ==
    smObs.sinceFinish =>
        /\ ~Smoother_is_active(sm)
        /\ smObs.op = "next" => smObs.ret = sm.target_value

(***************************************************************************)
(* The mixing loop on its own: process_block calls on a zeroed buffer.     *)
(***************************************************************************)
\* samples a generator returns on both channels
MixSamples == {0 - 2, 3}

\* envelope values and gains held over a block: one half and unity
MixLevels == {500, RAMP_TARGET}

\* a block of len values v
Held(v, len) == [k \in 1..len |-> v]

InitMix ==
    /\ mixBuffer = Held(0, 2 * MixFrames)
    /\ mixCall = <<>>
    /\ RampAtRest
    /\ SmootherAtRest
    /\ EngineAtRest
    /\ EnvAtRest
    /\ RelAtRest
    /\ LateAtRest

\* process_block over [start, end) with n active voices, each with
\* an envelope held at env and a generator that returns (s, s), under a gain
\* held at gain
MixProcessBlock ==
    /\ Len(mixCall) < MaxMixCalls
    /\ \E start \in 0..MixFrames, end \in 0..MixFrames,
          n \in 0..NUM_VOICES, s \in MixSamples, env_level \in MixLevels,
          gain \in MixLevels :
          /\ start < end
          /\ end - start <= MAX_BLOCK_SIZE
          /\ LET block_len == end - start
                 outs == [v \in 1..n |->
                             [envelope |-> Held(env_level, block_len),
                              sample_l |-> s,
                              sample_r |-> s]]
             IN  mixBuffer' = mix_voices(mixBuffer, outs, Held(gain, block_len),
                                         start, end)
          /\ mixCall' = Append(mixCall, [block_start |-> start,
                                         block_end   |-> end,
                                         n           |-> n,
                                         s           |-> s,
                                         envelope    |-> env_level,
                                         gain        |-> gain])
    /\ UNCHANGED exceptMix

NextMix == MixProcessBlock

SpecMix == InitMix /\ [][NextMix]_vars

(***************************************************************************)
(* C20                                                                     *)
(***************************************************************************)
\* what call c adds to buffer[idx] when its voices are at unity
UnityShare(c, idx) ==
    IF idx \div 2 >= c.block_start /\ idx \div 2 < c.block_end
    THEN c.n * c.s ELSE 0

RECURSIVE UnitySum(_, _)
UnitySum(calls, idx) ==
    IF calls = <<>> THEN 0
    ELSE UnityShare(Head(calls), idx) + UnitySum(Tail(calls), idx)

\* C20: on a buffer that was zeroed, when every process_block call so far had
\* its N voices produce the constant sample s on both channels with envelope
\* value 1 and gain 1, every interleaved index of a call's segment holds the
\* N * s of that call (summed over the calls whose segment holds the index)
\* and the indices outside the segments still hold 0.
C20_UnityVoicesSum ==
    (\A k \in 1..Len(mixCall) : /\ mixCall[k].envelope = RAMP_TARGET
                                /\ mixCall[k].gain = RAMP_TARGET) =>
        \A i \in 1..Len(mixBuffer) : mixBuffer[i] = UnitySum(mixCall, i - 1)

\* one call with a full pool at unity over a segment that leaves frames out
\* on both sides
C20_Witness ==
    /\ Len(mixCall) = 1
    /\ mixCall[1].n = NUM_VOICES
    /\ mixCall[1].envelope = RAMP_TARGET
    /\ mixCall[1].gain = RAMP_TARGET
    /\ mixCall[1].block_start = 1
    /\ mixCall[1].block_end = 2
    /\ mixBuffer[3] = NUM_VOICES * mixCall[1].s
    /\ mixBuffer[4] = NUM_VOICES * mixCall[1].s
    /\ mixBuffer[1] = 0
    /\ mixBuffer[5] = 0

(***************************************************************************)
(* C21: a VoiceHandler with its generator attached, on which start_voice   *)
(* and the release and kill of all voices are called directly.               *)
(***************************************************************************)
\* start_voice calls followed: one more than the values of the counter
MaxAllocations == IdValues + 1

InitIds == Init

\* VoiceHandler::start_voice(note, ..)
IdsStartVoice ==
    /\ Len(idsIssued) < MaxAllocations
    /\ \E note \in Notes :
          LET id == next_voice_id(idsHandler.id_counter)
          IN  /\ idsHandler' = [voices     |-> start_voice(idsHandler.voices,
                                                          id, note),
                                id_counter |-> id]
              /\ idsIssued' = Append(idsIssued, id)
    /\ UNCHANGED <<earlyVars, cfgVars, blkVars, builderVars, timerVars>>

\* VoiceHandler::kill_active_voices
IdsKillActiveVoices ==
    /\ is_voice_active(idsHandler.voices)
    /\ idsHandler' = [idsHandler EXCEPT
                         !.voices = kill_active_voices(idsHandler.voices)]
    /\ UNCHANGED <<idsIssued, earlyVars, cfgVars, blkVars, builderVars,
                   timerVars>>

\* VoiceHandler::start_release_for_active_voices
IdsStartReleaseForActiveVoices ==
    /\ \E i \in Occupied(idsHandler.voices) : ~idsHandler.voices[i].releasing
    /\ idsHandler' = [idsHandler EXCEPT
                         !.voices = start_release_for_active_voices(@)]
    /\ UNCHANGED <<idsIssued, earlyVars, cfgVars, blkVars, builderVars,
                   timerVars>>

NextIds ==
    \/ IdsStartVoice
    \/ IdsKillActiveVoices
    \/ IdsStartReleaseForActiveVoices

SpecIds == InitIds /\ [][NextIds]_vars

\* the ids of the voices in the pool
HeldIds(vs) == {vs[i].id : i \in Occupied(vs)}

\* the k-th id issued is greater than every id issued before it
GreaterThanEarlier(k) == \A i \in 1..(k - 1) : idsIssued[i] < idsIssued[k]

\* C21 as stated: ids start at 1 and, for any number of allocations, every
\* id issued by start_voice is strictly greater than every id issued before
\* it.
C21_IdsAlwaysIncrease ==
    /\ idsIssued # <<>> => idsIssued[1] = 1
    /\ \A k \in 1..Len(idsIssued) : GreaterThanEarlier(k)

\* C21 amended: ids start at 1 and each of the first 2^64 - 1 allocations of
\* a VoiceHandler (here IdValues - 1) receives an id strictly greater than
\* every id issued before it, so that none of them is reused or repeated and
\* the voices in the pool carry distinct ids.
C21_IdsIncreaseUntilWrap ==
    /\ idsIssued # <<>> => idsIssued[1] = 1
    /\ \A k \in 1..Len(idsIssued) : k < IdValues => GreaterThanEarlier(k)
    /\ Len(idsIssued) < IdValues =>
          /\ HeldIds(idsHandler.voices) \subseteq
                {idsIssued[k] : k \in 1..Len(idsIssued)}
          /\ \A i, j \in Occupied(idsHandler.voices) :
                i # j => idsHandler.voices[i].id # idsHandler.voices[j].id

\* a voice has been allocated into a full pool and the pool holds the two
\* newest ids
C21_Witness ==
    /\ Len(idsIssued) = NUM_VOICES + 1
    /\ Full(idsHandler.voices)
    /\ HeldIds(idsHandler.voices) =
          {idsIssued[k] : k \in 2..(NUM_VOICES + 1)}

(***************************************************************************)
(* C22: an AdsrEnvelope whose parameter setters are called, in a build     *)
(* with or without debug assertions, and which is then triggered and run.   *)
(***************************************************************************)
\* setter calls in one run
MaxCfgSetters == 2
\* next() calls in one run
MaxCfgNexts == 3

\* durations in ms, levels and curve amounts, in range and out of range
CfgTimes == {0 - 8, 0, 2}
CfgLevels == {0 - 200, 500, 1200}
CfgCurves == {0 - 1500, 700}

InitCfg ==
    /\ EarlyAtRest
    /\ IdsAtRest
    /\ BlkAtRest
    /\ BuilderAtRest
    /\ TimerAtRest
    /\ cfgEnv = AdsrEnvelope_new
    /\ cfgBuild \in [debug_assertions : BOOLEAN]
    /\ cfgCall = NoCfgCall

CfgMaySet == cfgCall.outcome = "returned" /\ cfgCall.setters < MaxCfgSetters

\* what every setter does after its assignment: debug_parameter_assertions(),
\* a debug_assert! that is compiled only with debug assertions
CfgSetterEnds(op, e) ==
    /\ cfgEnv' = e
    /\ cfgCall' = [cfgCall EXCEPT
          !.op = op,
          !.setters = @ + 1,
          !.outcome = IF /\ cfgBuild.debug_assertions
                         /\ ~debug_parameter_assertions(e.parameters)
                      THEN "panicked" ELSE "returned"]
    /\ UNCHANGED <<cfgBuild, earlyVars, idVars, blkVars, builderVars,
                   timerVars>>

CfgSetParameters ==
    /\ CfgMaySet
    /\ \E att, rel \in CfgTimes, sus \in CfgLevels :
          CfgSetterEnds("set_parameters", set_parameters(cfgEnv, att, 2, sus, rel))

CfgSetAttackTimeMs ==
    /\ CfgMaySet
    /\ \E t \in CfgTimes :
          CfgSetterEnds("set_attack_time_ms", set_attack_time_ms(cfgEnv, t))

CfgSetAttackLevel ==
    /\ CfgMaySet
    /\ \E l \in CfgLevels :
          CfgSetterEnds("set_attack_level", set_attack_level(cfgEnv, l))

CfgSetAttackCurve ==
    /\ CfgMaySet
    /\ \E c \in CfgCurves :
          CfgSetterEnds("set_attack_curve", set_attack_curve(cfgEnv, c))

CfgSetDecayTimeMs ==
    /\ CfgMaySet
    /\ \E t \in CfgTimes :
          CfgSetterEnds("set_decay_time_ms", set_decay_time_ms(cfgEnv, t))

CfgSetDecayCurve ==
    /\ CfgMaySet
    /\ \E c \in CfgCurves :
          CfgSetterEnds("set_decay_curve", set_decay_curve(cfgEnv, c))

CfgSetSustainLevel ==
    /\ CfgMaySet
    /\ \E l \in CfgLevels :
          CfgSetterEnds("set_sustain_level", set_sustain_level(cfgEnv, l))

CfgSetReleaseTimeMs ==
    /\ CfgMaySet
    /\ \E t \in CfgTimes :
          CfgSetterEnds("set_release_time_ms", set_release_time_ms(cfgEnv, t))

CfgSetReleaseCurve ==
    /\ CfgMaySet
    /\ \E c \in CfgCurves :
          CfgSetterEnds("set_release_curve", set_release_curve(cfgEnv, c))

\* set_trigger(true) as start_voice does, which arms the envelope
CfgSetTrigger ==
    /\ cfgCall.outcome = "returned"
    /\ ~cfgEnv.trigger
    /\ cfgEnv' = set_trigger(cfgEnv, TRUE)
    /\ cfgCall' = [cfgCall EXCEPT !.op = "set_trigger"]
    /\ UNCHANGED <<cfgBuild, earlyVars, idVars, blkVars, builderVars,
                   timerVars>>

\* AdsrEnvelope::next
CfgNext ==
    /\ cfgCall.outcome = "returned"
    /\ cfgCall.nexts < MaxCfgNexts
    /\ cfgEnv' = AdsrEnvelope_next(cfgEnv)
    /\ cfgCall' = [cfgCall EXCEPT !.op = "next", !.nexts = @ + 1]
    /\ UNCHANGED <<cfgBuild, earlyVars, idVars, blkVars, builderVars,
                   timerVars>>

NextCfg ==
    \/ CfgSetParameters
    \/ CfgSetAttackTimeMs
    \/ CfgSetAttackLevel
    \/ CfgSetAttackCurve
    \/ CfgSetDecayTimeMs
    \/ CfgSetDecayCurve
    \/ CfgSetSustainLevel
    \/ CfgSetReleaseTimeMs
    \/ CfgSetReleaseCurve
    \/ CfgSetTrigger
    \/ CfgNext

SpecCfg == InitCfg /\ [][NextCfg]_vars

\* C22: an envelope never holds an out-of-range parameter: a setter called
\* with a negative duration, a level outside [0, 1] or a curve outside
\* [-1, 1] fails at that call, so an envelope whose last call returned, and
\* in particular one on which next() has just run, has every parameter in
\* range.
C22_NoOutOfRangeParameterHeld ==
    cfgCall.outcome = "returned" => debug_parameter_assertions(cfgEnv.parameters)

(***************************************************************************)
(* C23: a Smoother advanced by next(), skip() and next_block(), each skip  *)
(* and block call set against the next() calls it stands for.               *)
(***************************************************************************)
\* calls on the Smoother in one run
MaxBlkOps == 3

\* lengths of the blocks and skips
BlkLens == {1, 2, 3}

InitBlk ==
    /\ EarlyAtRest
    /\ IdsAtRest
    /\ CfgAtRest
    /\ BuilderAtRest
    /\ TimerAtRest
    /\ \E period \in SmootherPeriods, target \in SmootherTargets :
          blkSm = Smoother_new(period, target)
    /\ blkObs = NoBlkCall

\* the values n successive next() calls return and the Smoother they leave
RECURSIVE NextTimes(_, _)
NextTimes(s, n) ==
    IF n = 0 THEN [values |-> <<>>, after |-> s]
    ELSE LET before == NextTimes(s, n - 1)
         IN  [values |-> Append(before.values,
                                Smoother_skip_value(before.after, 1)),
              after  |-> Smoother_next(before.after)]

\* the state the claim compares: current value, remaining steps, activity
BlkState(s) == <<s.current_value, s.ramp.steps_remaining, Smoother_is_active(s)>>

BlkObserved(op, n, values, after) ==
    [op         |-> op,
     n          |-> n,
     values     |-> values,
     after      |-> BlkState(after),
     nextValues |-> NextTimes(blkSm, n).values,
     nextAfter  |-> BlkState(NextTimes(blkSm, n).after),
     ops        |-> blkObs.ops + 1]

\* Smoother::next
BlkNext ==
    /\ blkObs.ops < MaxBlkOps
    /\ blkSm' = Smoother_next(blkSm)
    /\ blkObs' = BlkObserved("next", 1, <<Smoother_skip_value(blkSm, 1)>>, blkSm')
    /\ UNCHANGED <<earlyVars, idVars, cfgVars, builderVars, timerVars>>

\* Smoother::skip(n)
BlkSkip ==
    /\ blkObs.ops < MaxBlkOps
    /\ \E n \in BlkLens :
          /\ blkSm' = Smoother_skip(blkSm, n)
          /\ blkObs' = BlkObserved("skip", n, <<Smoother_skip_value(blkSm, n)>>,
                                   blkSm')
    /\ UNCHANGED <<earlyVars, idVars, cfgVars, builderVars, timerVars>>

\* Smoother::next_block(out, n)
BlkNextBlock ==
    /\ blkObs.ops < MaxBlkOps
    /\ \E n \in BlkLens :
          /\ blkSm' = Smoother_next_block(blkSm, n)
          /\ blkObs' = BlkObserved("next_block", n,
                                   Smoother_next_block_values(blkSm, n), blkSm')
    /\ UNCHANGED <<earlyVars, idVars, cfgVars, builderVars, timerVars>>

\* Smoother::set_target_value
BlkSetTargetValue ==
    /\ blkObs.ops < MaxBlkOps
    /\ \E target \in SmootherTargets :
          blkSm' = Smoother_set_target_value(blkSm, target)
    /\ blkObs' = [NoBlkCall EXCEPT !.op = "set_target_value",
                                   !.ops = blkObs.ops + 1]
    /\ UNCHANGED <<earlyVars, idVars, cfgVars, builderVars, timerVars>>

NextBlk == BlkNext \/ BlkSkip \/ BlkNextBlock \/ BlkSetTargetValue

SpecBlk == InitBlk /\ [][NextBlk]_vars

\* C23: next_block(out, n) writes the n values that n successive next()
\* calls return and leaves the Smoother with the same current value,
\* remaining steps and activity as they do; skip(n) returns the value of the
\* last of n successive next() calls and leaves the same state.
C23_BlockAndSkipMatchNext ==
    /\ blkObs.op = "next_block" =>
          /\ blkObs.values = blkObs.nextValues
          /\ blkObs.after = blkObs.nextAfter
    /\ blkObs.op = "skip" =>
          /\ blkObs.values[1] = blkObs.nextValues[blkObs.n]
          /\ blkObs.after = blkObs.nextAfter

(***************************************************************************)
(* C24: an AudioModelBuilder on which the preparation methods are called   *)
(* in any order and build() at the end (app/audio/model/builder.rs).        *)
(***************************************************************************)
\* preparation calls on one builder
MaxBuilderCalls == 5

\* the bit each preparation method sets in prepared_state
PreparationBit ==
    [processors |-> 1, generation |-> 2, data |-> 4, buffers |-> 8,
     params |-> 16]

PreparationSteps == DOMAIN PreparationBit

\* a | bit on the u8 prepared_state, bit a power of two
BitOr(a, bit) == IF (a \div bit) % 2 = 1 THEN a ELSE a + bit

InitBuilder == Init

BuilderMayPrepare ==
    /\ builder.outcome = "building"
    /\ Len(builderCalls) < MaxBuilderCalls

\* self.prepared_state |= bit; self
BuilderPrepares(step) ==
    /\ builder' = [builder EXCEPT
                      !.prepared_state = BitOr(@, PreparationBit[step])]
    /\ builderCalls' = Append(builderCalls, step)
    /\ UNCHANGED <<earlyVars, idVars, cfgVars, blkVars, timerVars>>

BuilderProcessors == BuilderMayPrepare /\ BuilderPrepares("processors")

BuilderGeneration == BuilderMayPrepare /\ BuilderPrepares("generation")

BuilderData == BuilderMayPrepare /\ BuilderPrepares("data")

BuilderBuffers == BuilderMayPrepare /\ BuilderPrepares("buffers")

BuilderParams == BuilderMayPrepare /\ BuilderPrepares("params")

\* build(): assert!(self.prepared_state == Self::PREPARED_CHECKSUM, ..), then
\* the AudioPackage
BuilderBuild ==
    /\ builder.outcome = "building"
    /\ builder' = [builder EXCEPT
                      !.outcome = IF builder.prepared_state = PREPARED_CHECKSUM
                                  THEN "built" ELSE "panicked"]
    /\ UNCHANGED <<builderCalls, earlyVars, idVars, cfgVars, blkVars,
                   timerVars>>

NextBuilder ==
    \/ BuilderProcessors
    \/ BuilderGeneration
    \/ BuilderData
    \/ BuilderBuffers
    \/ BuilderParams
    \/ BuilderBuild

SpecBuilder == InitBuilder /\ [][NextBuilder]_vars

\* the preparation methods called on the builder
Prepared == {builderCalls[k] : k \in 1..Len(builderCalls)}

\* C24: build() panics if any of processors(), generation(), data(),
\* buffers() or params() has not been called on the builder, and returns the
\* AudioPackage when all five have been called, in any order.
C24_BuildNeedsAllFiveSteps ==
    /\ builder.outcome = "panicked" => Prepared # PreparationSteps
    /\ builder.outcome = "built" => Prepared = PreparationSteps

(***************************************************************************)
(* C25: a TimerThread (util/timer.rs), its owner calling start, stop and   *)
(* stop_after_num_callbacks while the spawned thread runs its loop, one     *)
(* step per atomic load or store. Time is counted in ticks of dt().         *)
(***************************************************************************)
\* calls the owner makes in one run
MaxTimerOps == 3

\* the callbacks counted since the last call of the owner
TimerCallsCap == 3

\* num_callbacks of stop_after_num_callbacks
TimerCounts == {0, 1, 2}

\* the interval between callbacks, in ticks
TimerIntervals == {1, 2}

InitTimer == Init

TimerCalled(op, n) ==
    [op |-> op, n |-> n, calls |-> 0, wasRunning |-> thread,
     ops |-> timerObs.ops + 1]

\* start(): nothing when a thread is held, else the interval and the
\* sentinel are stored and the thread is spawned
TimerStart ==
    /\ ownerPc = "idle"
    /\ timerObs.ops < MaxTimerOps
    /\ timerObs' = TimerCalled("start", 0)
    /\ IF thread
       THEN UNCHANGED <<thread, continue_sentinel, interval_secs, timerPc>>
       ELSE /\ \E interval \in TimerIntervals : interval_secs' = interval
            /\ continue_sentinel' = TRUE
            /\ timerPc' = "loop"
            /\ thread' = TRUE
    /\ UNCHANGED <<timeout_counter, counter_secs, ownerPc>>
    /\ UNCHANGED <<earlyVars, idVars, cfgVars, blkVars, builderVars>>

\* what stop() does up to the join: self.thread.take(), the sentinel cleared
TimerStopBegins ==
    IF thread
    THEN /\ thread' = FALSE
         /\ continue_sentinel' = FALSE
         /\ ownerPc' = "joining"
    ELSE /\ ownerPc' = "idle"
         /\ UNCHANGED <<thread, continue_sentinel>>

\* stop()
TimerStop ==
    /\ ownerPc = "idle"
    /\ timerObs.ops < MaxTimerOps
    /\ timerObs' = TimerCalled("stop", 0)
    /\ TimerStopBegins
    /\ UNCHANGED <<timeout_counter, counter_secs, interval_secs, timerPc>>
    /\ UNCHANGED <<earlyVars, idVars, cfgVars, blkVars, builderVars>>

\* stop_after_num_callbacks, line 148: the timeout counter is stored
TimerStopAfterNumCallbacks ==
    /\ ownerPc = "idle"
    /\ timerObs.ops < MaxTimerOps
    /\ \E num_callbacks \in TimerCounts :
          /\ timeout_counter' = num_callbacks
          /\ timerObs' = TimerCalled("stop_after_num_callbacks", num_callbacks)
    /\ ownerPc' = "stored"
    /\ UNCHANGED <<thread, continue_sentinel, counter_secs, interval_secs,
                   timerPc>>
    /\ UNCHANGED <<earlyVars, idVars, cfgVars, blkVars, builderVars>>

\* stop_after_num_callbacks, line 149: self.stop()
TimerStopAfterStops ==
    /\ ownerPc = "stored"
    /\ TimerStopBegins
    /\ UNCHANGED <<timeout_counter, counter_secs, interval_secs, timerPc,
                   timerObs>>
    /\ UNCHANGED <<earlyVars, idVars, cfgVars, blkVars, builderVars>>

\* thread.join() returns once the spawned thread has left its loop
TimerJoin ==
    /\ ownerPc = "joining"
    /\ timerPc = "done"
    /\ ownerPc' = "idle"
    /\ timerPc' = "none"
    /\ UNCHANGED <<thread, continue_sentinel, timeout_counter, counter_secs,
                   interval_secs, timerObs>>
    /\ UNCHANGED <<earlyVars, idVars, cfgVars, blkVars, builderVars>>

\* A loop that looks at the sentinel only.
timer_continues_on_sentinel(sentinel, timeout) == sentinel

\* while sentinel.load(Acquire) || timeout.load(Acquire) > 0
timer_continues(sentinel, timeout) == sentinel \/ timeout > 0

\* if !sentinel.load(Acquire) && timeout.load(Acquire) > 0
timer_counts_down(sentinel, timeout) == ~sentinel /\ timeout > 0

\* the loop condition, its first load: the sentinel
TimerLoopSentinel ==
    /\ timerPc = "loop"
    /\ timerPc' = IF continue_sentinel THEN "body" ELSE "loop_timeout"
    /\ UNCHANGED <<thread, continue_sentinel, timeout_counter, counter_secs,
                   interval_secs, ownerPc, timerObs>>
    /\ UNCHANGED <<earlyVars, idVars, cfgVars, blkVars, builderVars>>

\* the loop condition, its second load: the timeout counter
TimerLoopTimeout ==
    /\ timerPc = "loop_timeout"
    /\ timerPc' = IF timer_continues(FALSE, timeout_counter)
                  THEN "body" ELSE "done"
    /\ UNCHANGED <<thread, continue_sentinel, timeout_counter, counter_secs,
                   interval_secs, ownerPc, timerObs>>
    /\ UNCHANGED <<earlyVars, idVars, cfgVars, blkVars, builderVars>>

\* lines 86-89 and 108: the counter has not reached the interval and dt() is
\* added to it, or it has and the callback is due
TimerTick ==
    /\ timerPc = "body"
    /\ IF counter_secs >= interval_secs
       THEN /\ timerPc' = "due"
            /\ UNCHANGED counter_secs
       ELSE /\ timerPc' = "loop"
            /\ counter_secs' = counter_secs + 1
    /\ UNCHANGED <<thread, continue_sentinel, timeout_counter, interval_secs,
                   ownerPc, timerObs>>
    /\ UNCHANGED <<earlyVars, idVars, cfgVars, blkVars, builderVars>>

\* line 90: the sentinel is loaded again
TimerDueSentinel ==
    /\ timerPc = "due"
    /\ timerPc' = IF continue_sentinel THEN "call" ELSE "due_timeout"
    /\ UNCHANGED <<thread, continue_sentinel, timeout_counter, counter_secs,
                   interval_secs, ownerPc, timerObs>>
    /\ UNCHANGED <<earlyVars, idVars, cfgVars, blkVars, builderVars>>

\* line 91: the timeout counter is loaded
TimerDueTimeout ==
    /\ timerPc = "due_timeout"
    /\ timerPc' = IF timer_counts_down(FALSE, timeout_counter)
                  THEN "fetch_sub" ELSE "call"
    /\ UNCHANGED <<thread, continue_sentinel, timeout_counter, counter_secs,
                   interval_secs, ownerPc, timerObs>>
    /\ UNCHANGED <<earlyVars, idVars, cfgVars, blkVars, builderVars>>

\* line 93: timeout.fetch_sub(1, Release); a u32 at 0 would wrap to its
\* largest value, for which the largest integer at hand stands
TimerFetchSub ==
    /\ timerPc = "fetch_sub"
    /\ timeout_counter' = IF timeout_counter > 0 THEN timeout_counter - 1
                          ELSE 2147483647
    /\ timerPc' = "call"
    /\ UNCHANGED <<thread, continue_sentinel, counter_secs, interval_secs,
                   ownerPc, timerObs>>
    /\ UNCHANGED <<earlyVars, idVars, cfgVars, blkVars, builderVars>>

\* lines 96-105: the callback is invoked, the interval is taken off the
\* counter and dt() restarts the clock
TimerCallback ==
    /\ timerPc = "call"
    /\ timerObs' = [timerObs EXCEPT !.calls = Min(@ + 1, TimerCallsCap)]
    /\ counter_secs' = counter_secs - interval_secs
    /\ timerPc' = "loop"
    /\ UNCHANGED <<thread, continue_sentinel, timeout_counter, interval_secs,
                   ownerPc>>
    /\ UNCHANGED <<earlyVars, idVars, cfgVars, blkVars, builderVars>>

\* the steps of the spawned thread
TimerThreadStep ==
    \/ TimerLoopSentinel
    \/ TimerLoopTimeout
    \/ TimerTick
    \/ TimerDueSentinel
    \/ TimerDueTimeout
    \/ TimerFetchSub
    \/ TimerCallback

\* the steps that carry on a call the owner is in
TimerOwnerStep == TimerStopAfterStops \/ TimerJoin

NextTimer ==
    \/ TimerStart
    \/ TimerStop
    \/ TimerStopAfterNumCallbacks
    \/ TimerStopAfterStops
    \/ TimerJoin
    \/ TimerLoopSentinel
    \/ TimerLoopTimeout
    \/ TimerTick
    \/ TimerDueSentinel
    \/ TimerDueTimeout
    \/ TimerFetchSub
    \/ TimerCallback

\* Both threads are scheduled: the spawned thread keeps taking steps (its
\* sleep returns) and the owner goes on with the call it is in.
SpecTimer ==
    /\ InitTimer
    /\ [][NextTimer]_vars
    /\ WF_vars(TimerThreadStep)
    /\ WF_vars(TimerOwnerStep)

\* the spawned thread has left its loop during a stop_after_num_callbacks
\* call only after the callback has been invoked num_callbacks times since
StopsOnlyAfterCallbacks ==
    (/\ timerObs.op = "stop_after_num_callbacks"
     /\ timerObs.wasRunning
     /\ ownerPc \in {"joining", "idle"}
     /\ timerPc \in {"done", "none"}) => timerObs.calls >= timerObs.n

\* between the return of a stop and the next start() there is no thread that
\* could invoke the callback
NoThreadAfterReturn == (ownerPc = "idle" /\ ~thread) => timerPc = "none"

TouchedBy(command, vs) ==
    {i \in Occupied(vs) : command.cmd = "KillAll" \/ ~vs[i].releasing}

\* C26: a kill_all or release_all command affects only voices allocated
\* before it was issued: when process_block receives the command, no voice
\* it kills or marks releasing was started by a NoteOn that was enqueued
\* after the command was issued.
C26_CommandSparesLaterVoices ==
    [][(voiceQ # <<>> /\ voiceQ' = Tail(voiceQ)) =>
          \A i \in TouchedBy(Head(voiceQ), voices) :
              noteLog.origin[voices[i].id] <= Head(voiceQ).sent]_vars

(***************************************************************************)
(* C27                                                                     *)
(***************************************************************************)
\* the value one ramp step into an attack that starts at 0: the attack curve
\* at the progress 1 / (attack time in samples)
FirstAttackStep(e) ==
    shaped("CurveNormal", 0, e.parameters.attack_level,
           FixDiv(RAMP_TARGET,
                  Ramp_duration_samples([duration_ms |->
                                             e.parameters.attack_time_ms])))

\* C27: with a non-zero attack time, the first value next() returns after
\* the envelope has entered Attack from Idle is at most one ramp step above
\* 0, for a freshly constructed envelope as for one that has been through a
\* release.
C27_AttackRisesFromZero ==
    (/\ envOut.from = "Idle"
     /\ envOut.via = "Attack"
     /\ env.parameters.attack_time_ms > 0) =>
        envOut.value <= FirstAttackStep(env)

(***************************************************************************)
(* C28                                                                     *)
(***************************************************************************)
\* the release duration of a voice's envelope in samples
ReleaseSamples(v) ==
    Ramp_duration_samples([duration_ms |-> v.envelope.parameters.release_time_ms])

\* C28: a voice that has been marked releasing is cleared by the sweep of
\* the segment in which the release duration plus one further samples have
\* been processed since, whatever stage its envelope was in: a releasing
\* voice that is still in the pool after a sweep has been processed for at
\* most the release duration since it was marked, so that a pool of released
\* voices that receives no NoteOn empties as the samples are processed.
C28_ReleasedVoiceIsCleared ==
    \A i \in Occupied(voices) :
        voices[i].releasing =>
            /\ relLog.frames[i] >= 0
            /\ relLog.frames[i] <= ReleaseSamples(voices[i])
            /\ (lastStep = "segment" /\ relLog.frames[i] > 0) =>
                  ~is_idle(voices[i].envelope)

\* a voice that was released while it sounded has been cleared by a sweep,
\* right after the release duration plus one samples, and the pool is empty
C28_Witness ==
    /\ lastStep = "segment"
    /\ \E n \in relLog.swept : n > DEFAULT_RELEASE_TIME_MS
    /\ ~is_voice_active(voices)

(***************************************************************************)
(* C29                                                                     *)
(***************************************************************************)
\* C29: every NoteEvent process() receives from the note channel is applied
\* to the voice pool exactly once before that call returns, whatever its
\* timing: while the call runs the events received are those applied and the
\* one held in next_event, and when it has returned every received event has
\* been applied.
C29_ReceivedEventsAreApplied ==
    /\ pc = "run" =>
          noteLog.received
              = Len(applied) + (IF next_event = NoEvent THEN 0 ELSE 1)
    /\ pc = "out" => noteLog.received = Len(applied)

(***************************************************************************)
(* C30                                                                     *)
(***************************************************************************)
\* the last frame a callback has processed so far
ProcessedUpTo == IF segs = <<>> THEN 0 ELSE segs[Len(segs)].end

\* C30: in a callback that does not take the idle fast path the segments
\* processed are contiguous from frame 0, each is between 1 and
\* MAX_BLOCK_SIZE frames long and none passes the end of the buffer; the loop
\* continues at the end of the last segment, and when process() returns the
\* segments cover exactly [0, buffer_len).
C30_SegmentsCoverBuffer ==
    /\ \A k \in 1..Len(segs) :
          /\ segs[k].start = IF k = 1 THEN 0 ELSE segs[k - 1].end
          /\ segs[k].end - segs[k].start >= 1
          /\ segs[k].end - segs[k].start <= MAX_BLOCK_SIZE
          /\ segs[k].end <= buffer_len
    /\ pc = "run" =>
          /\ block_start = ProcessedUpTo
          /\ block_start < buffer_len
          /\ block_end > block_start
          /\ block_end - block_start <= MAX_BLOCK_SIZE
    /\ (pc = "out" /\ lastPath = "full") => ProcessedUpTo = buffer_len

\* a returned callback over 100 frames that an event at frame 70 has split
\* into [0,64), [64,70) and [70,100)
C30_Witness ==
    /\ pc = "out"
    /\ lastPath = "full"
    /\ buffer_len = 100
    /\ Len(segs) = 3
    /\ segs[2].end = 70
    /\ Len(applied) >= 1

====
